---- MODULE Spec2Model ----
(***************************************************************************)
(* WrenGo: the embedding bridge between Go host code and the Wren guest VM *)
(* (the most recent revision of vm.go present in the sources, which is the *)
(* Go code embedded in src/README.md from line 98 on).                     *)
(*                                                                         *)
(* The guest VM is an external collaborator seen through its C ABI: its    *)
(* slot array, its table of native handles (WrenHandle) and what its       *)
(* interpreter does between a wrenInterpret / wrenCall and its return.     *)
(***************************************************************************)
EXTENDS Integers, Sequences, FiniteSets, TLC

\* ------------------------------------------------------------------ bounds
\* Go *Handle objects the host creates during a run.
MaxHandles == 2
\* Frames (guest activations and host callbacks) nested at a time, on all
\* the VMs' threads together.
MaxDepth == 3

\* Slots the handle operations reserve: wrenEnsureSlots(vm.vm, 3).
NumSlots == 3

VMs == {1, 2}
HandleIds == 1..MaxHandles
\* Addresses the guest's allocator hands out for native handles; 0 is NULL.
Ptrs == 1..MaxHandles
Slots == 0..(NumSlots - 1)

\* ------------------------------------------------------------------ values
\* A value, host side or guest side: a type tag and a payload.  The payload
\* is a sequence of naturals: bytes for a string, bits (most significant
\* first) for a number's magnitude, an identity for an object or a handle.
Val(t, s) == [t |-> t, neg |-> FALSE, e |-> 0, s |-> s]
NumVal(t, neg, bits, e) == [t |-> t, neg |-> neg, e |-> e, s |-> bits]

\* Guest values, by the type wrenGetSlotType reports.
GNull == Val("NULL", <<>>)
GBool(b) == Val("BOOL", IF b THEN <<1>> ELSE <<0>>)
GStr(bytes) == Val("STRING", bytes)
GObj(t, o) == Val(t, <<o>>)

\* Host values.
HNil == Val("nil", <<>>)
HBool(b) == Val("bool", IF b THEN <<1>> ELSE <<0>>)
HStr(bytes) == Val("string", bytes)
HBytes(bytes) == Val("bytes", bytes)
HRef(kind, h) == Val(kind, <<h>>)
\* A host value of a type the marshaler has no case for (a struct, a map,
\* a slice other than []byte, a *CallHandle ...); the payload names it.
HOther(n) == Val("other", <<n>>)

HandleVariants == {"Handle", "ListHandle", "MapHandle", "ForeignHandle"}

\* ------------------------------------------------------------------ numbers
\* Significand width of the guest's only numeric type, a C double.
Mant == 53

Zeros(n) == [i \in 1..n |-> 0]
Ones(n) == [i \in 1..n |-> 1]

\* bits + 1, for a sequence of bits, most significant first.
Inc(bits) ==
  LET zs == {i \in 1..Len(bits) : bits[i] = 0} IN
  IF zs = {} THEN <<1>> \o Zeros(Len(bits))
  ELSE LET z == CHOOSE i \in zs : \A j \in zs : j <= i IN
       [i \in 1..Len(bits) |-> IF i < z THEN bits[i] ELSE IF i = z THEN 1 ELSE 0]

\* The conversion C.double(x) of a 64-bit integer magnitude: the nearest
\* value with Mant significant bits, ties to even.
RoundMant(bits) ==
  IF Len(bits) <= Mant THEN bits
  ELSE LET keep == SubSeq(bits, 1, Mant)
           rest == SubSeq(bits, Mant + 1, Len(bits))
           up == /\ rest[1] = 1
                 /\ \/ \E i \in 2..Len(rest) : rest[i] = 1
                    \/ keep[Mant] = 1
       IN (IF up THEN Inc(keep) ELSE keep) \o Zeros(Len(rest))

TrailingZeros(bits) ==
  IF \A i \in 1..Len(bits) : bits[i] = 0 THEN Len(bits)
  ELSE LET l == CHOOSE i \in 1..Len(bits) :
                  bits[i] = 1 /\ \A j \in (i + 1)..Len(bits) : bits[j] = 0
       IN Len(bits) - l

\* The exact value (-1)^neg * bits * 2^e in canonical form: an odd
\* significand, or zero.  Two numbers are equal iff their canonical forms are.
Canon(neg, bits, e) ==
  LET tz == TrailingZeros(bits) IN
  IF tz = Len(bits) THEN [neg |-> FALSE, e |-> 0, s |-> <<>>]
  ELSE [neg |-> neg, e |-> e + tz, s |-> SubSeq(bits, 1, Len(bits) - tz)]

GNum(neg, bits, e) ==
  LET c == Canon(neg, bits, e) IN NumVal("NUM", c.neg, c.s, c.e)
HInt(neg, bits) == NumVal("int", neg, bits, 0)
HUint(bits) == NumVal("uint", FALSE, bits, 0)
HFloat(neg, bits, e) == NumVal("float", neg, bits, e)

\* ------------------------------------------------------------------ C buffers
\* C.CBytes(data): a malloc'ed copy of the len(data) bytes, no terminator.
CBytes(data) == [len |-> Len(data), mem |-> data]
\* C.GoString(ptr), the conversion a NUL-terminated read would make: the
\* bytes before the first NUL.
GoStringUpToNul(buf, length) ==
  LET nuls == {i \in 1..Len(buf.mem) : buf.mem[i] = 0} IN
  IF nuls = {} THEN buf.mem
  ELSE SubSeq(buf.mem, 1, (CHOOSE i \in nuls : \A j \in nuls : i <= j) - 1)
\* C.GoBytes(ptr, length): the first `length` bytes at ptr.
GoBytes(buf, length) == SubSeq(buf.mem, 1, length)

\* ------------------------------------------------------------------ state
VARIABLES
  vmptr,      \* [VMs -> BOOLEAN]: VM.vm is not nil
  vmMap,      \* the VM registry: the VMs whose native pointer is a key of vmMap
  vmhandles,  \* [VMs -> [nil, m]]: VM.handles, a Go map from native pointer
              \*   to *Handle (m[p] = 0: no entry); nil after VM.Free
  hobj,       \* [HandleIds -> [vm, handle, kind, receiver]]: the Go *Handle
              \*   objects; vm = 0: not created yet; handle = 0: nil
  native,     \* [Ptrs -> [vm, val]]: the guest's native handles; vm = 0: the
              \*   address holds no handle
  slots,      \* [VMs -> [Slots -> guest value]]: each guest VM's slot array
  stack,      \* [VMs -> Seq(frame)]: what runs on the VM's thread, innermost
              \*   last: "interp" / "call" (the guest, entered by wrenInterpret
              \*   / wrenCall) or "host" (host code the guest called back)
  undef,      \* [VMs -> BOOLEAN]: the guest VM was used against its ABI's
              \*   preconditions; what it does from then on is undefined
  crashed,    \* the process died (a Go panic or a fault inside the guest)
  rel,        \* [HandleIds -> Nat]: wrenReleaseHandle calls made through
              \*   each *Handle object
  last,       \* the host operation performed last and how it went
  mv,         \* the marshaling round trip under check: [pc, in, out], with
              \*   prior, the *Handle objects that existed before the read
  heap,       \* [Objs -> object]: the Go objects binding tables are made of
              \*   (MethodMap, ForeignClass, ClassMap, Module, ModuleMap)
  held,       \* the objects host code holds a reference to
  bt,         \* the binding-table operation performed last and how it went
  foreignMap, \* [Addrs -> foreignInstance]: the Foreign Object Table, a Go
              \*   map from the address of a guest foreign object
  torn,       \* a data race hit foreignMap: what it holds is undefined
  foreignMapMux, \* [w, r]: the thread that holds the write lock (0: none)
              \*   and the threads that hold a read lock
  thread,     \* [Threads -> [pc, a, inst]]: where each VM's goroutine is in
              \*   a foreign constructor, a finalize callback or a Get
  guest,      \* [Addrs -> [st, vm, bound, made, calls]]: the guest's foreign
              \*   objects, with what was recorded when each was constructed
  fh,         \* the table operation completed last and how it went
              \*   (gone: the table holds no entry for its address)
  config,     \* [vm, DefaultOutput, DefaultError, DefaultModuleLoader]: each
              \*   VM's *Config and the package's default streams and loader
  cb,         \* the callback the guest made last and what came of it
  bindMap,    \* [VMs -> Seq(fn)]: VM.bindMap, the host functions the VM's
              \*   foreign-method slots forward to
  fiber,      \* [VMs -> guest value]: the error of the VM's running fiber
              \*   (null: the fiber has not been aborted)
  fm,         \* the bind callback or foreign call made last
  vmMapMux,   \* [w, r]: the goroutine that holds the write lock of the VM
              \*   registry (0: none) and those that hold a read lock
  goroutine,  \* [Threads -> Seq(frame)]: what each goroutine is in, innermost
              \*   last: a NewVM, a VM.Free, the guest, a callback trampoline
              \*   or host code
  rh          \* the registry access or trampoline step made last

\* The state of the bridge proper, and of the binding tables.
bridgeVars == <<vmptr, vmMap, vmhandles, hobj, native, slots, stack, undef,
                rel, last, mv>>
bindVars == <<heap, held, bt>>
foreignVars == <<foreignMap, torn, foreignMapMux, thread, guest, fh>>
dispatchVars == <<config, cb>>
methodVars == <<bindMap, fiber, fm>>
registryVars == <<vmMapMux, goroutine, rh>>

vars == <<vmptr, vmMap, vmhandles, hobj, native, slots, stack, undef,
          crashed, rel, last, mv, heap, held, bt,
          foreignMap, torn, foreignMapMux, thread, guest, fh, config, cb,
          bindMap, fiber, fm, vmMapMux, goroutine, rh>>

NoHandle == [vm |-> 0, handle |-> 0, kind |-> "none", receiver |-> 0]
NoNative == [vm |-> 0, val |-> GNull]
EmptyRegistry == [nil |-> FALSE, m |-> [p \in 0..MaxHandles |-> 0]]

Running(v) == \E i \in 1..Len(stack[v]) : stack[v][i] \in {"interp", "call"}
Top(v) == stack[v][Len(stack[v])]
\* Host code can run on v's thread: nothing is active, or the guest called
\* back into the host.
HostTurn(v) == ~crashed /\ (IF stack[v] = <<>> THEN TRUE ELSE Top(v) = "host")
GuestTurn(v) ==
  ~crashed /\ (IF stack[v] = <<>> THEN FALSE ELSE Top(v) \in {"interp", "call"})

\* The part of the state the bridge's functions read and write, as a value
\* threaded through them; abi counts the guest ABI calls made, null says a
\* NULL native handle was passed to the guest, panic that Go panicked, mut
\* lists the ABI calls made that change a guest map or list, calloc and
\* cfree count the blocks of C memory allocated (C.CString, C.CBytes) and
\* released (C.free).
World ==
  [vmptr |-> vmptr, vmMap |-> vmMap, vmhandles |-> vmhandles, hobj |-> hobj,
   native |-> native, slots |-> slots, undef |-> undef, rel |-> rel,
   abi |-> 0, null |-> FALSE, panic |-> FALSE, mut |-> <<>>,
   calloc |-> 0, cfree |-> 0]

\* n blocks allocated with C.CString or C.CBytes; n blocks released with
\* C.free; and n blocks allocated with the C.free of each deferred.
CAlloc(w, n) == [w EXCEPT !.calloc = @ + n]
CFree(w, n) == [w EXCEPT !.cfree = @ + n]
CScoped(w, n) == CFree(CAlloc(w, n), n)

FreeHandleIds(w) == {h \in HandleIds : w.hobj[h].vm = 0}
FreePtrs(w) == {p \in Ptrs : w.native[p].vm = 0}
NextHandle(w) == CHOOSE h \in FreeHandleIds(w) : \A g \in FreeHandleIds(w) : h <= g
\* The address of the next native handle the guest allocates: its allocator
\* reuses the lowest free address.
NextPtr(w) == CHOOSE p \in FreePtrs(w) : \A q \in FreePtrs(w) : p <= q
\* Room for one more handle within the model's bound.
CanCreate(w) == FreeHandleIds(w) # {} /\ FreePtrs(w) # {}

\* An error value: its Go type and the value it carries (InvalidValue.Value).
Err(k, x) == [k |-> k, v |-> x]
NoErr == Err("", HNil)

\* ------------------------------------------------------------------ guest ABI
\* A call of the guest ABI on VM v.  The ABI takes a live WrenVM*: with
\* vm.vm nil the call dereferences NULL.
AbiOn(w, v) ==
  [w EXCEPT !.abi = @ + 1, !.undef[v] = @ \/ ~w.vmptr[v]]

\* wrenGetSlotHandle(vm, slot): a new native handle, at address p, that keeps
\* the slot's value alive.
wrenGetSlotHandle(w, v, slot, p) ==
  [AbiOn(w, v) EXCEPT !.native[p] = [vm |-> v, val |-> w.slots[v][slot]]]

\* wrenMakeCallHandle(vm, signature): a new native handle for a method symbol.
wrenMakeCallHandle(w, v, p) ==
  [AbiOn(w, v) EXCEPT !.native[p] = [vm |-> v, val |-> GObj("UNKNOWN", 0)]]

\* wrenReleaseHandle(vm, handle): handle must be a live handle of vm.
wrenReleaseHandle(w, v, p) ==
  LET w1 == AbiOn(w, v) IN
  IF p # 0 /\ w.native[p].vm = v
  THEN [w1 EXCEPT !.native[p] = NoNative]
  ELSE [w1 EXCEPT !.undef[v] = TRUE, !.null = @ \/ p = 0]

\* wrenSetSlotHandle(vm, slot, handle): slot := the value handle keeps alive.
\* handle must not be NULL: the guest reads handle->value.
wrenSetSlotHandle(w, v, slot, p) ==
  LET w1 == AbiOn(w, v) IN
  IF p # 0 /\ w.native[p].vm = v
  THEN [w1 EXCEPT !.slots[v][slot] = w.native[p].val]
  ELSE [w1 EXCEPT !.undef[v] = TRUE, !.null = @ \/ p = 0]

\* wrenSetSlotBytes(vm, slot, bytes, length): slot := a guest string holding
\* a copy of the first `length` bytes.
wrenSetSlotBytes(w, v, slot, buf, length) ==
  [AbiOn(w, v) EXCEPT !.slots[v][slot] = GStr(SubSeq(buf.mem, 1, length))]

wrenSetSlotBool(w, v, slot, b) ==
  [AbiOn(w, v) EXCEPT !.slots[v][slot] = GBool(b)]

wrenSetSlotDouble(w, v, slot, neg, bits, e) ==
  [AbiOn(w, v) EXCEPT !.slots[v][slot] = GNum(neg, bits, e)]

wrenSetSlotNull(w, v, slot) ==
  [AbiOn(w, v) EXCEPT !.slots[v][slot] = GNull]

\* ------------------------------------------------------------------ handles
\* func (vm *VM) createHandle(handle *C.WrenHandle) *Handle, for the wrapper
\* (kind, receiver) its caller builds around the new *Handle.
createHandle(w, v, p, kind, recv) ==
  LET h == NextHandle(w) IN
  IF w.vmhandles[v].nil
  THEN [w EXCEPT !.panic = TRUE]   \* assignment to an entry of a nil map
  ELSE [w EXCEPT
          !.hobj[h] = [vm |-> v, handle |-> p, kind |-> kind, receiver |-> recv],
          !.vmhandles[v].m[p] = h]

\* A Free that releases the native handle and keeps the pointer.
HandleFreeKeepPointer(w, h) ==
  LET o == w.hobj[h] IN
  IF o.handle # 0
  THEN [wrenReleaseHandle(w, o.vm, o.handle) EXCEPT !.rel[h] = @ + 1]
  ELSE w

\* func (h *Handle) Free()
HandleFree(w, h) ==
  LET o == w.hobj[h]
      w1 == IF o.handle # 0
            THEN [wrenReleaseHandle(w, o.vm, o.handle) EXCEPT
                    !.rel[h] = @ + 1, !.hobj[h].handle = 0]
            ELSE w
      \* the registry is looked up with h.handle as it is now
      key == w1.hobj[h].handle
  IN IF ~w1.vmhandles[o.vm].nil /\ w1.vmhandles[o.vm].m[key] # 0
     THEN [w1 EXCEPT !.vmhandles[o.vm].m[key] = 0]
     ELSE w1

RECURSIVE FreeEach(_, _)
FreeEach(w, hs) ==
  IF hs = {} THEN w
  ELSE LET h == CHOOSE x \in hs : TRUE IN FreeEach(HandleFree(w, h), hs \ {h})

\* A VM.Free that frees the native VM and leaves the handles to themselves.
VMFreeNativeOnly(w, v) ==
  LET w1 == [w EXCEPT !.vmhandles[v] = [nil |-> TRUE, m |-> EmptyRegistry.m]]
  IN IF w1.vmptr[v]
     THEN [AbiOn(w1, v) EXCEPT
             !.vmMap = @ \ {v},
             !.vmptr[v] = FALSE,
             !.native = [p \in Ptrs |-> IF @[p].vm = v THEN NoNative ELSE @[p]],
             !.slots[v] = [s \in Slots |-> GNull]]
     ELSE w1

\* func (vm *VM) Free()
VMFree(w, v) ==
  LET reg == w.vmhandles[v]
      w1 == IF ~reg.nil
            THEN [FreeEach(w, {reg.m[p] : p \in 0..MaxHandles} \ {0}) EXCEPT
                    !.vmhandles[v] = [nil |-> TRUE, m |-> EmptyRegistry.m]]
            ELSE w
  IN IF w1.vmptr[v]
     THEN [AbiOn(w1, v) EXCEPT    \* wrenFreeVM
             !.vmMap = @ \ {v},
             !.vmptr[v] = FALSE,
             !.native = [p \in Ptrs |-> IF @[p].vm = v THEN NoNative ELSE @[p]],
             !.slots[v] = [s \in Slots |-> GNull]]
     ELSE w1

\* ------------------------------------------------------------------ marshaling
\* The marshaler of the earlier revision (src/vm.go) does not look at the
\* handle's VM.
SameVMUnchecked(w, v, h) == TRUE
\* if handle.VM() != vm { return &NonMatchingVM{} }, negated
SameVM(w, v, h) == w.hobj[h].vm = v

\* A default case that returns the error and leaves the slot alone.
UnsupportedNoWrite(w, v, value, slot) ==
  [w |-> w, err |-> Err("InvalidValue", value)]
\* The default case of setSlotValue's switch on reflect.Kind:
\*   C.wrenSetSlotNull(vm.vm, C.int(slot)); return &InvalidValue{Value: value}
Unsupported(w, v, value, slot) ==
  [w |-> wrenSetSlotNull(w, v, slot), err |-> Err("InvalidValue", value)]

\* func (vm *VM) setSlotValue(value interface{}, slot int) error
\* The result is the world after it and the error it returns.
setSlotValue(w, v, value, slot) ==
  CASE value.t \in HandleVariants ->
         LET h == value.s[1] IN
         IF ~SameVM(w, v, h)
         THEN [w |-> w, err |-> Err("NonMatchingVM", HNil)]
         ELSE [w |-> wrenSetSlotHandle(w, v, slot, w.hobj[h].handle),
               err |-> NoErr]
    [] value.t = "bytes" ->      \* cValue := C.CBytes(data), not freed
         LET cValue == CBytes(value.s) IN
         [w |-> wrenSetSlotBytes(CAlloc(w, 1), v, slot, cValue, Len(value.s)),
          err |-> NoErr]
    [] value.t = "bool" ->
         [w |-> wrenSetSlotBool(w, v, slot, value.s = <<1>>), err |-> NoErr]
    [] value.t = "string" ->     \* cValue := C.CBytes(data); defer C.free
         LET cValue == CBytes(value.s) IN
         [w |-> wrenSetSlotBytes(CScoped(w, 1), v, slot, cValue, Len(value.s)),
          err |-> NoErr]
    [] value.t = "float" ->      \* reflect.Float32, reflect.Float64
         [w |-> wrenSetSlotDouble(w, v, slot, value.neg, value.s, value.e),
          err |-> NoErr]
    [] value.t \in {"int", "uint"} ->   \* C.double(v.Int()), C.double(v.Uint())
         [w |-> wrenSetSlotDouble(w, v, slot, value.neg, RoundMant(value.s), 0),
          err |-> NoErr]
    [] value.t = "nil" ->        \* reflect.Invalid
         [w |-> wrenSetSlotNull(w, v, slot), err |-> NoErr]
    [] OTHER -> Unsupported(w, v, value, slot)

\* The guest types getSlotValue wraps in a new handle, and the wrapper.
WrapperOf(t) ==
  CASE t = "FOREIGN" -> "ForeignHandle"
    [] t = "LIST" -> "ListHandle"
    [] t = "MAP" -> "MapHandle"
    [] t = "UNKNOWN" -> "Handle"
    [] OTHER -> "none"

NeedsHandle(gv) == WrapperOf(gv.t) # "none"

\* A getSlotValue that keeps one handle per guest object: it hands back the
\* handle the VM already has on the slot's object, when there is one.
getSlotValueCached(w, v, slot) ==
  LET x == w.slots[v][slot]
      p == NextPtr(w)
      w1 == AbiOn(w, v)
      have == {h \in HandleIds :
                 /\ w.hobj[h].vm = v /\ w.hobj[h].handle # 0
                 /\ w.native[w.hobj[h].handle].val = x}
  IN IF WrapperOf(x.t) = "none" \/ have = {}
     THEN IF WrapperOf(x.t) = "none"
          THEN [w |-> w1, val |-> [x EXCEPT !.t = "nil"]]
          ELSE [w |-> createHandle(wrenGetSlotHandle(w1, v, slot, p), v, p,
                                   WrapperOf(x.t), 0),
                val |-> HRef(WrapperOf(x.t), NextHandle(w))]
     ELSE [w |-> w1, val |-> HRef(WrapperOf(x.t), CHOOSE h \in have : TRUE)]

\* func (vm *VM) getSlotValue(slot int) (value interface{})
\* The result is the world after it and the value it returns.
getSlotValue(w, v, slot) ==
  LET x == w.slots[v][slot]
      p == NextPtr(w)
      w1 == AbiOn(w, v)           \* wrenGetSlotType
  IN CASE x.t = "BOOL" ->
            [w |-> AbiOn(w1, v), val |-> HBool(x.s = <<1>>)]
       [] x.t = "NUM" ->          \* float64(C.wrenGetSlotDouble(...))
            [w |-> AbiOn(w1, v), val |-> HFloat(x.neg, x.s, x.e)]
       [] x.t \in {"FOREIGN", "LIST", "MAP", "UNKNOWN"} ->
            [w |-> createHandle(wrenGetSlotHandle(w1, v, slot, p), v, p,
                                WrapperOf(x.t), 0),
             val |-> HRef(WrapperOf(x.t), NextHandle(w))]
       [] x.t = "NULL" ->
            [w |-> w1, val |-> HNil]
       [] x.t = "STRING" ->       \* wrenGetSlotBytes(vm, slot, &length)
            LET str == [len |-> Len(x.s), mem |-> x.s] IN
            [w |-> AbiOn(w1, v), val |-> HStr(GoBytes(str, str.len))]

\* func resultsToError(results C.WrenInterpretResult) error
resultsToError(results) ==
  CASE results = "SUCCESS" -> NoErr
    [] results = "COMPILE_ERROR" -> Err("ResultCompileError", HNil)
    [] results = "RUNTIME_ERROR" -> Err("ResultRuntimeError", HNil)

\* ------------------------------------------------------------------ steps
Released(h) == hobj[h].handle = 0

\* The record of a host operation: which, on which VM, whether the handle it
\* was invoked on was released, the error it returned, whether the VM was
\* Running when it was invoked, whether it entered the guest interpreter, the
\* guest ABI calls it made, whether one of them was given a NULL handle,
\* whether Go panicked in it, the changes it made to a guest map or list and
\* the key and value it was called with (container operations).
Done(op, v, h, err, w, entered) ==
  [op |-> op, vm |-> v, released |-> (h # 0 /\ Released(h)), err |-> err,
   running |-> Running(v), entered |-> entered,
   abi |-> w.abi, null |-> w.null, panic |-> w.panic, mut |-> w.mut,
   key |-> HNil, value |-> HNil, calloc |-> w.calloc, cfree |-> w.cfree,
   ret |-> FALSE]

Commit(w) ==
  /\ vmptr' = w.vmptr
  /\ vmMap' = w.vmMap
  /\ vmhandles' = w.vmhandles
  /\ hobj' = w.hobj
  /\ native' = w.native
  /\ slots' = w.slots
  /\ undef' = w.undef
  /\ rel' = w.rel
  /\ crashed' = (crashed \/ w.panic)
  /\ UNCHANGED <<bindVars, foreignVars, dispatchVars, methodVars, registryVars>>

\* A host operation that returns without entering the guest interpreter:
\* r is the world after it and the error it returned.
Finish(op, v, h, r) ==
  /\ Commit(r.w)
  /\ last' = Done(op, v, h, r.err, r.w, FALSE)
  /\ UNCHANGED <<stack, mv>>

\* The same of a container operation called with a key and a value.
FinishWith(op, v, h, r, key, value) ==
  /\ Commit(r.w)
  /\ last' = [Done(op, v, h, r.err, r.w, FALSE) EXCEPT !.key = key,
                                                        !.value = value]
  /\ UNCHANGED <<stack, mv>>

Fail(w, k) == [w |-> w, err |-> Err(k, HNil)]
Ok(w) == [w |-> w, err |-> NoErr]

\* Frames on all the VMs' threads together.
RECURSIVE DepthOf(_)
DepthOf(S) ==
  IF S = {} THEN 0
  ELSE LET v == CHOOSE x \in S : TRUE IN Len(stack[v]) + DepthOf(S \ {v})
Depth == DepthOf(VMs)

Push(v, f) == stack' = [stack EXCEPT ![v] = Append(@, f)]
Pop(v) == stack' = [stack EXCEPT ![v] = SubSeq(@, 1, Len(@) - 1)]

\* wrenInterpret / wrenCall: the guest interpreter starts running on v.  It
\* is not reentrant: started while it runs on v, it overwrites the running
\* fiber and API stack.
EnterGuest(w, v) == [AbiOn(w, v) EXCEPT !.undef[v] = @ \/ Running(v)]

\* What guest code leaves in a slot or holds in a module variable.
GuestVals ==
  {GNull, GObj("LIST", 1), GObj("MAP", 2), GObj("FOREIGN", 3), GObj("UNKNOWN", 4)}

\* Reading gv creates no handle, or there is room for the one it creates.
CanRead(w, gv) == NeedsHandle(gv) => CanCreate(w)

\* func (vm *VM) InterpretString(module, source string) error, up to the
\* call of wrenInterpret; InterpretReturn is its return.
InterpretString(v) ==
  /\ HostTurn(v)
  /\ IF ~vmptr[v]
     THEN Finish("InterpretString", v, 0, Fail(World, "NilVMError"))
     ELSE /\ Depth < MaxDepth
          /\ LET w == EnterGuest(CAlloc(World, 2), v) IN   \* cModule, cSource
             /\ Commit(w)
             /\ last' = Done("InterpretString", v, 0, NoErr, w, TRUE)
          /\ Push(v, "interp")
          /\ UNCHANGED mv

\* The guest invokes a function the host registered with this VM (a
\* Config.WriteFn / ErrorFn / LoadModuleFn or a bound foreign method): host
\* code runs until it returns, on the thread that runs the guest.
hostCallbackEnter(v) ==
  /\ GuestTurn(v)
  /\ v \in vmMap
  /\ Depth < MaxDepth
  /\ Push(v, "host")
  /\ UNCHANGED <<vmptr, vmMap, vmhandles, hobj, native, slots, undef, crashed,
                 rel, last, mv>>
  /\ UNCHANGED <<bindVars, foreignVars, dispatchVars, methodVars, registryVars>>

hostCallbackReturn(v) ==
  /\ ~crashed
  /\ stack[v] # <<>>
  /\ Top(v) = "host"
  /\ Pop(v)
  /\ UNCHANGED <<vmptr, vmMap, vmhandles, hobj, native, slots, undef, crashed,
                 rel, last, mv>>
  /\ UNCHANGED <<bindVars, foreignVars, dispatchVars, methodVars, registryVars>>

\* wrenInterpret returns: InterpretString returns resultsToError(results).
InterpretReturn(v, results) ==
  /\ GuestTurn(v)
  /\ Top(v) = "interp"
  /\ fiber[v] = GNull
  /\ Pop(v)
  /\ Commit(World)
  /\ last' = Done("InterpretString.return", v, 0, resultsToError(results),
                  CScoped(World, 2), FALSE)   \* the deferred C.free of both
  /\ UNCHANGED mv

\* Parameters a call passes, at most.
MaxParams == 1

Allocated == {h \in HandleIds : hobj[h].vm # 0}

\* Every handle created so far, as the wrapper it was returned in (a
\* *CallHandle is of no type the marshaler supports).
HandleArgs == {HRef(hobj[h].kind, h) : h \in Allocated}

\* The host values the model's callers pass: a number, a value of an
\* unsupported type and the handles.
HostArgs == {HInt(FALSE, <<1>>), HOther(1)} \cup HandleArgs

\* The key tried on a map.
Keys == {HInt(FALSE, <<1>>)}

ParamLists(args) == UNION {[1..n -> args] : n \in 0..MaxParams}

\* The loop of Call over its parameters: slot i for parameter i, stopping at
\* the first error.
RECURSIVE SetParams(_, _, _, _)
SetParams(w, v, params, i) ==
  IF i > Len(params) THEN [w |-> w, err |-> NoErr]
  ELSE LET r == setSlotValue(w, v, params[i], i) IN
       IF r.err # NoErr THEN r ELSE SetParams(r.w, v, params, i + 1)

\* A Call that marshals every parameter and calls the method whatever the
\* marshaling said.
CallHandleCallAnyway(h, params) ==
  LET v == hobj[h].vm IN
  /\ hobj[h].kind = "CallHandle"
  /\ HostTurn(v)
  /\ IF Released(h)
     THEN Finish("Call", v, h, Fail(World, "NilHandleError"))
     ELSE LET w1 == AbiOn(World, v)
              w2 == setSlotValue(w1, v, HRef("Handle", hobj[h].receiver), 0).w
              r == SetParams(w2, v, params, 1)
          IN /\ Depth < MaxDepth
             /\ LET w == EnterGuest(r.w, v) IN
                /\ Commit(w)
                /\ last' = Done("Call", v, h, NoErr, w, TRUE)
             /\ Push(v, "call")
             /\ UNCHANGED mv

\* func (h *CallHandle) Call(parameters ...interface{}) (interface{}, error),
\* up to the call of wrenCall; CallReturn is its return.
CallHandleCall(h, params) ==
  LET v == hobj[h].vm IN
  /\ hobj[h].kind = "CallHandle"
  /\ HostTurn(v)
  /\ IF Released(h)
     THEN Finish("Call", v, h, Fail(World, "NilHandleError"))
     ELSE LET w1 == AbiOn(World, v)      \* wrenEnsureSlots
              \* the error of this call is dropped
              w2 == setSlotValue(w1, v, HRef("Handle", hobj[h].receiver), 0).w
              r == SetParams(w2, v, params, 1)
          IN IF r.err # NoErr
             THEN Finish("Call", v, h, r)
             ELSE /\ Depth < MaxDepth
                  /\ LET w == EnterGuest(r.w, v) IN
                     /\ Commit(w)
                     /\ last' = Done("Call", v, h, NoErr, w, TRUE)
                  /\ Push(v, "call")
                  /\ UNCHANGED mv

\* wrenCall returns: Call returns the error, or the value the guest left in
\* slot 0 (gv), read by getSlotValue.
CallReturn(v, results, gv) ==
  /\ GuestTurn(v)
  /\ Top(v) = "call"
  /\ results \in {"SUCCESS", "RUNTIME_ERROR"}
  /\ Pop(v)
  /\ UNCHANGED mv
  /\ IF resultsToError(results) # NoErr
     THEN /\ gv = GNull
          /\ Commit(World)
          /\ last' = Done("Call.return", v, 0, resultsToError(results), World, FALSE)
     ELSE /\ CanRead(World, gv)
          /\ LET w0 == [World EXCEPT !.slots[v][0] = gv]
                 r == getSlotValue(w0, v, 0)
             IN /\ Commit(r.w)
                /\ last' = Done("Call.return", v, 0, NoErr, r.w, FALSE)

\* func (vm *VM) GetVariable(module, name string) (interface{}, error)
\* found: what the guest answers to wrenHasModule and wrenHasVariable;
\* gv: the variable's value.
GetVariable(v, found, gv) ==
  /\ HostTurn(v)
  /\ IF ~vmptr[v]
     THEN /\ found = "ok" /\ gv = GNull
          /\ Finish("GetVariable", v, 0, Fail(World, "NilVMError"))
     ELSE IF found = "nomodule"
     THEN /\ gv = GNull
          /\ Finish("GetVariable", v, 0,
                    Fail(AbiOn(CScoped(World, 2), v), "NoSuchModule"))
     ELSE IF found = "novariable"
     THEN /\ gv = GNull
          /\ Finish("GetVariable", v, 0,
                    Fail(AbiOn(AbiOn(CScoped(World, 2), v), v), "NoSuchVariable"))
     ELSE /\ CanRead(World, gv)
          /\ LET w0 == AbiOn(AbiOn(AbiOn(CScoped(World, 2), v), v), v) \* ..., wrenEnsureSlots
                 w1 == [AbiOn(w0, v) EXCEPT !.slots[v][0] = gv] \* wrenGetVariable
             IN Finish("GetVariable", v, 0, Ok(getSlotValue(w1, v, 0).w))

\* A host operation that returns a bool and does not enter the guest
\* interpreter.
FinishBool(op, v, w, ret) ==
  /\ Commit(w)
  /\ last' = [Done(op, v, 0, NoErr, w, FALSE) EXCEPT !.ret = ret]
  /\ UNCHANGED <<stack, mv>>

\* func (vm *VM) HasVariable(module, name string) bool
\*   cModule := C.CString(module); cName := C.CString(name)
\*   if vm.vm == nil || !C.wrenHasModule(vm.vm, cModule) { return false }
\*   defer func() { C.free(cModule); C.free(cName) }()
\*   return vm.vm != nil && C.wrenHasModule(...) && C.wrenHasVariable(...)
HasVariable(v, found) ==
  /\ HostTurn(v)
  /\ IF ~vmptr[v]
     THEN /\ found = "ok"
          /\ FinishBool("HasVariable", v, CAlloc(World, 2), FALSE)
     ELSE IF found = "nomodule"
     THEN FinishBool("HasVariable", v, AbiOn(CAlloc(World, 2), v), FALSE)
     ELSE FinishBool("HasVariable", v,
                     AbiOn(AbiOn(AbiOn(CScoped(World, 2), v), v), v),
                     found = "ok")

\* func (vm *VM) HasModule(module string) bool
HasModule(v, found) ==
  /\ HostTurn(v)
  /\ IF ~vmptr[v]
     THEN /\ found = "ok"
          /\ FinishBool("HasModule", v, World, FALSE)
     ELSE FinishBool("HasModule", v, AbiOn(CScoped(World, 1), v),
                     found # "nomodule")

\* wrenSetSlotNewMap(vm, slot) / wrenSetSlotNewList(vm, slot): slot := a new
\* empty map or list.
wrenSetSlotNew(w, v, slot, t) ==
  [AbiOn(w, v) EXCEPT !.slots[v][slot] = GObj(t, IF t = "LIST" THEN 1 ELSE 2)]

\* func (vm *VM) NewMap() (*MapHandle, error) and
\* func (vm *VM) NewList() (*ListHandle, error); t is "MAP" or "LIST".
NewContainer(v, t) ==
  LET op == IF t = "MAP" THEN "NewMap" ELSE "NewList" IN
  /\ HostTurn(v)
  /\ IF ~vmptr[v]
     THEN Finish(op, v, 0, Fail(World, "NilVMError"))
     ELSE /\ CanCreate(World)
          /\ LET w1 == wrenSetSlotNew(AbiOn(World, v), v, 0, t)   \* wrenEnsureSlots
             IN Finish(op, v, 0, Ok(getSlotValue(w1, v, 0).w))

\* func (vm *VM) GC(): C.wrenCollectGarbage(vm.vm)
GC(v) ==
  /\ HostTurn(v)
  /\ Finish("GC", v, 0, Ok(AbiOn(World, v)))

\* func (vm *VM) InterpretFile(fileName string) error
\* readable: ioutil.ReadFile returns the file's data and no error.
InterpretFile(v, readable) ==
  /\ HostTurn(v)
  /\ IF ~vmptr[v]
     THEN /\ readable
          /\ Finish("InterpretFile", v, 0, Fail(World, "NilVMError"))
     ELSE IF ~readable
     THEN Finish("InterpretFile", v, 0, Fail(World, "PathError"))
     ELSE InterpretString(v)

\* func (h *Handle) Func(signature string) (*CallHandle, error), and the
\* same function of MapHandle, ListHandle and ForeignHandle.
HandleFunc(h) ==
  LET v == hobj[h].vm IN
  /\ hobj[h].kind \in HandleVariants
  /\ HostTurn(v)
  /\ IF Released(h)
     THEN Finish("Func", v, h, Fail(World, "NilHandleError"))
     ELSE /\ CanCreate(World)
          /\ LET p == NextPtr(World) IN
             Finish("Func", v, h,
                    Ok(createHandle(wrenMakeCallHandle(CScoped(World, 1), v, p), v, p,
                                    "CallHandle", h)))

\* func (h *Handle) Free(), reached through any wrapper's Free().
Free(h) ==
  LET v == hobj[h].vm IN
  /\ h \in Allocated
  /\ HostTurn(v)
  /\ Finish("Free", v, h, Ok(HandleFree(World, h)))

\* func (vm *VM) FreeAll(items ...interface{}), for the handles among items.
FreeAll(v, hs) ==
  /\ hs # {}
  /\ hs \subseteq Allocated
  /\ HostTurn(v)
  /\ Finish("FreeAll", v, 0, Ok(FreeEach(World, hs)))

\* func (vm *VM) Free().  Freed under a running guest (from a callback), the
\* guest goes on running in freed memory.
VMFreeCall(v) ==
  /\ HostTurn(v)
  /\ LET w0 == VMFree(World, v)
         w == [w0 EXCEPT !.undef[v] = @ \/ (stack[v] # <<>> /\ vmptr[v])]
     IN Finish("VM.Free", v, 0, Ok(w))

\* Undefined behaviour in the guest takes the process down, or does not.
Crash ==
  /\ ~crashed
  /\ \E v \in VMs : undef[v]
  /\ crashed' = TRUE
  /\ UNCHANGED <<vmptr, vmMap, vmhandles, hobj, native, slots, stack, undef,
                 rel, last, mv>>
  /\ UNCHANGED <<bindVars, foreignVars, dispatchVars, methodVars, registryVars>>

\* ------------------------------------------------------------------ containers
\* A guest ABI call that takes the object of type t in a slot: the guest
\* casts the slot's value without checking it.
OnObject(w, v, slot, t) ==
  [AbiOn(w, v) EXCEPT !.undef[v] = @ \/ w.slots[v][slot].t # t]

\* A call of the guest ABI that changes the map or list in slot 0: which
\* call, with which index, and the guest values in the key (or element) slot
\* and in the value slot.
Mutation(fn, index, key, value) ==
  <<[fn |-> fn, index |-> index, key |-> key, value |-> value]>>

\* wrenSetMapValue(vm, mapSlot, keySlot, valueSlot)
wrenSetMapValue(w, v, mapSlot, keySlot, valueSlot) ==
  [OnObject(w, v, mapSlot, "MAP") EXCEPT
     !.mut = @ \o Mutation("wrenSetMapValue", 0, w.slots[v][keySlot],
                           w.slots[v][valueSlot])]

\* wrenRemoveMapValue(vm, mapSlot, keySlot, removedValueSlot)
wrenRemoveMapValue(w, v, mapSlot, keySlot, removedValueSlot) ==
  [OnObject(w, v, mapSlot, "MAP") EXCEPT
     !.mut = @ \o Mutation("wrenRemoveMapValue", 0, w.slots[v][keySlot], GNull)]

\* wrenInsertInList(vm, listSlot, index, elementSlot)
wrenInsertInList(w, v, listSlot, index, elementSlot) ==
  [OnObject(w, v, listSlot, "LIST") EXCEPT
     !.mut = @ \o Mutation("wrenInsertInList", index, w.slots[v][elementSlot],
                           GNull)]

\* wrenSetListElement(vm, listSlot, index, elementSlot)
wrenSetListElement(w, v, listSlot, index, elementSlot) ==
  [OnObject(w, v, listSlot, "LIST") EXCEPT
     !.mut = @ \o Mutation("wrenSetListElement", index, w.slots[v][elementSlot],
                           GNull)]

\* wrenEnsureSlots, then the container's own handle into slot 0; the error of
\* setSlotValue is dropped, here and for keys and values.
Receiver(w, h) ==
  LET v == w.hobj[h].vm IN
  setSlotValue(AbiOn(w, v), v, HRef("Handle", h), 0).w

Put(w, v, value, slot) == setSlotValue(w, v, value, slot).w

\* switch C.wrenGetSlotType(vm.vm, 1): a number, string, boolean or null.
KeyTypeOk(w, v) == w.slots[v][1].t \in {"NUM", "STRING", "BOOL", "NULL"}

\* The result of a read through slot: the value gv the guest put there.
ReadBack(w, v, slot, gv) ==
  Ok(getSlotValue([w EXCEPT !.slots[v][slot] = gv], v, slot).w)

\* func (h *MapHandle) Get(key interface{}) (interface{}, error)
\* has: the guest's answer to wrenGetMapContainsKey; gv: the value at key.
MapHandleGet(w, h, key, has, gv) ==
  LET v == w.hobj[h].vm
      w1 == AbiOn(Put(Receiver(w, h), v, key, 1), v)
  IN IF ~KeyTypeOk(w1, v) THEN Fail(w1, "InvalidKey")
     ELSE LET w2 == OnObject(w1, v, 0, "MAP") IN
          IF has THEN ReadBack(OnObject(w2, v, 0, "MAP"), v, 2, gv)
          ELSE Fail(w2, "KeyNotExist")

\* func (h *MapHandle) Set(key, value interface{}) error
MapHandleSet(w, h, key, value) ==
  LET v == w.hobj[h].vm
      w1 == AbiOn(Put(Receiver(w, h), v, key, 1), v)
  IN IF ~KeyTypeOk(w1, v) THEN Fail(w1, "InvalidKey")
     ELSE Ok(wrenSetMapValue(Put(w1, v, value, 2), v, 0, 1, 2))

\* func (h *MapHandle) Delete(key interface{}) (interface{}, error)
\* gv: the value removed.
MapHandleDelete(w, h, key, gv) ==
  LET v == w.hobj[h].vm
      w1 == AbiOn(Put(Receiver(w, h), v, key, 1), v)
  IN IF ~KeyTypeOk(w1, v) THEN Fail(w1, "InvalidKey")
     ELSE ReadBack(wrenRemoveMapValue(w1, v, 0, 1, 2), v, 2, gv)

\* func (h *MapHandle) Has(key interface{}) (bool, error)
MapHandleHas(w, h, key) ==
  LET v == w.hobj[h].vm
      w1 == AbiOn(Put(Receiver(w, h), v, key, 1), v)
  IN IF ~KeyTypeOk(w1, v) THEN Fail(w1, "InvalidKey")
     ELSE Ok(OnObject(w1, v, 0, "MAP"))

\* func (h *MapHandle) Count() (int, error)
MapHandleCount(w, h) ==
  Ok(OnObject(Receiver(w, h), w.hobj[h].vm, 0, "MAP"))

\* func (h *MapHandle) Copy() (*MapHandle, error), and Copy of ListHandle and
\* ForeignHandle: a new handle of the same kind on the object in slot 0.
HandleCopy(w, h) ==
  LET v == w.hobj[h].vm
      w1 == Receiver(w, h)
      p == NextPtr(w1)
  IN Ok(createHandle(wrenGetSlotHandle(w1, v, 0, p), v, p, w.hobj[h].kind, 0))

\* func (h *ListHandle) Get(index int) (interface{}, error)
\* count: the guest's answer to wrenGetListCount(vm.vm, C.int(index)), which
\* is asked for the list in slot `index`; gv: the element.
ListHandleGet(w, h, index, count, gv) ==
  LET v == w.hobj[h].vm
      w1 == Receiver(w, h)
  IN IF index < 0 THEN Fail(w1, "OutOfBounds")
     ELSE LET w2 == IF index \in Slots THEN OnObject(w1, v, index, "LIST")
                    ELSE [AbiOn(w1, v) EXCEPT !.undef[v] = TRUE]
          IN IF index >= count THEN Fail(w2, "OutOfBounds")
             ELSE ReadBack(OnObject(w2, v, 0, "LIST"), v, 1, gv)

\* func (h *ListHandle) Insert(value interface{}) error, and InsertAt and
\* Set, which differ in the call and the index they hand to the guest.
ListHandlePut(w, h, op, index, value) ==
  LET v == w.hobj[h].vm
      w1 == Put(Receiver(w, h), v, value, 1)
  IN Ok(CASE op = "Insert" -> wrenInsertInList(w1, v, 0, -1, 1)
          [] op = "InsertAt" -> wrenInsertInList(w1, v, 0, index, 1)
          [] op = "Set" -> wrenSetListElement(w1, v, 0, index, 1))

\* func (h *ListHandle) Count() (int, error)
ListHandleCount(w, h) ==
  Ok(OnObject(Receiver(w, h), w.hobj[h].vm, 0, "LIST"))

\* func (h *ForeignHandle) Get() (interface{}, error)
\* known: the pointer wrenGetSlotForeign returns is a key of foreignMap.
ForeignHandleGet(w, h, known) ==
  LET w1 == OnObject(Receiver(w, h), w.hobj[h].vm, 0, "FOREIGN") IN
  IF known THEN Ok(w1) ELSE Fail(w1, "UnknownForeign")

MapOps == {"Get", "Set", "Delete", "Has", "Count", "Copy"}
ListOps == {"Get", "Insert", "InsertAt", "Set", "Count", "Copy"}
ForeignOps == {"Get", "Copy"}

\* A container operation that does not look at handle.handle.
Unguarded(h, r) == r
\* Every operation of a container handle starts with
\*   if handle.handle == nil { return ..., &NilHandleError{} }
Guarded(h, r) == IF Released(h) THEN Fail(World, "NilHandleError") ELSE r

\* An operation op of the MapHandle h.
MapHandleOp(h, op, key, value, has, gv) ==
  LET v == hobj[h].vm IN
  /\ hobj[h].kind = "MapHandle"
  /\ op \in MapOps
  /\ HostTurn(v)
  /\ (op \in {"Get", "Delete"} /\ ~Released(h)) => CanRead(World, gv)
  /\ (op = "Copy" /\ ~Released(h)) => CanCreate(World)
  /\ FinishWith("MapHandle." \o op, v, h,
                Guarded(h, CASE op = "Get" -> MapHandleGet(World, h, key, has, gv)
                             [] op = "Set" -> MapHandleSet(World, h, key, value)
                             [] op = "Delete" -> MapHandleDelete(World, h, key, gv)
                             [] op = "Has" -> MapHandleHas(World, h, key)
                             [] op = "Count" -> MapHandleCount(World, h)
                             [] op = "Copy" -> HandleCopy(World, h)),
                key, value)

\* An operation op of the ListHandle h.
ListHandleOp(h, op, index, value, count, gv) ==
  LET v == hobj[h].vm IN
  /\ hobj[h].kind = "ListHandle"
  /\ op \in ListOps
  /\ HostTurn(v)
  /\ (op = "Get" /\ ~Released(h)) => CanRead(World, gv)
  /\ (op = "Copy" /\ ~Released(h)) => CanCreate(World)
  /\ FinishWith("ListHandle." \o op, v, h,
                Guarded(h, CASE op = "Get" -> ListHandleGet(World, h, index, count, gv)
                             [] op \in {"Insert", "InsertAt", "Set"} ->
                                  ListHandlePut(World, h, op, index, value)
                             [] op = "Count" -> ListHandleCount(World, h)
                             [] op = "Copy" -> HandleCopy(World, h)),
                HNil, value)

\* The host integer i, as ListHandle.Get takes it and Count returns it.
RECURSIVE Binary(_)
Binary(n) == IF n = 0 THEN <<>> ELSE Binary(n \div 2) \o <<n % 2>>
IntVal(i) == HInt(i < 0, Binary(IF i < 0 THEN -i ELSE i))

\* The indexes Get is called with, the sizes of the list behind the handle
\* and what the guest reads as the count of a slot that does not hold it.
ListIndexes == {-1, 0, 1, 2}
ListCounts == {0, 1, 2}
StrayCounts == {0, 3}

\* h.Get(index) on a ListHandle whose list has n elements.  The bound is
\* taken from wrenGetListCount(vm.vm, C.int(index)): the list is in slot 0,
\* so the guest answers n for index 0 only, and for any other index it reads
\* the count out of whatever that slot holds (answer).  The index and n are
\* kept with the result.
ListHandleGetAt(h, index, n, answer, gv) ==
  LET v == hobj[h].vm IN
  /\ hobj[h].kind = "ListHandle"
  /\ HostTurn(v)
  /\ ~Released(h) => CanRead(World, gv)
  /\ FinishWith("ListHandle.Get", v, h,
                Guarded(h, ListHandleGet(World, h, index,
                                         IF index = 0 THEN n ELSE answer, gv)),
                IntVal(index), IntVal(n))

\* An operation op of the ForeignHandle h.
ForeignHandleOp(h, op, known) ==
  LET v == hobj[h].vm IN
  /\ hobj[h].kind = "ForeignHandle"
  /\ op \in ForeignOps
  /\ HostTurn(v)
  /\ (op = "Copy" /\ ~Released(h)) => CanCreate(World)
  /\ Finish("ForeignHandle." \o op, v, h,
            Guarded(h, CASE op = "Get" -> ForeignHandleGet(World, h, known)
                         [] op = "Copy" -> HandleCopy(World, h)))

\* ------------------------------------------------------------------ marshaling steps
\* vm.setSlotValue(value, slot), as an operation hands one host value to the
\* guest (after its wrenEnsureSlots).
Write(v, value, slot) ==
  /\ HostTurn(v)
  /\ vmptr[v]
  /\ LET r == setSlotValue(AbiOn(World, v), v, value, slot) IN
     /\ Commit(r.w)
     /\ last' = Done("setSlotValue", v, 0, r.err, r.w, FALSE)
     /\ mv' = [pc |-> "written", vm |-> v, slot |-> slot, in |-> value,
               err |-> r.err, before |-> slots[v][slot], out |-> HNil,
               prior |-> {}]
  /\ UNCHANGED stack

\* vm.getSlotValue(slot) of the slot written last, as a foreign method or a
\* container read hands the guest's value back to the host.
Read ==
  /\ mv.pc = "written"
  /\ HostTurn(mv.vm)
  /\ CanRead(World, slots[mv.vm][mv.slot])
  /\ LET r == getSlotValue(World, mv.vm, mv.slot) IN
     /\ Commit(r.w)
     /\ last' = Done("getSlotValue", mv.vm, 0, NoErr, r.w, FALSE)
     /\ mv' = [mv EXCEPT !.pc = "read", !.out = r.val, !.prior = Allocated]
  /\ UNCHANGED stack

\* Bytes of the strings the model passes: NUL, an ASCII letter, a byte of a
\* multi-byte UTF-8 sequence.
Bytes == {0, 97, 200}
\* Longest string or byte sequence passed.
MaxLen == 1
Strings == UNION {[1..n -> Bytes] : n \in 0..MaxLen}

\* 2^53, and 2^53 + 1: the first integer a double cannot hold.
Pow53 == <<1>> \o Zeros(Mant)
Pow53Plus1 == <<1>> \o Zeros(Mant - 1) \o <<1>>

Numbers ==
  {HInt(FALSE, <<>>), HInt(FALSE, <<1>>), HInt(TRUE, <<1, 1>>),
   HInt(FALSE, Pow53), HInt(FALSE, Pow53Plus1), HInt(TRUE, Pow53Plus1),
   HUint(<<1, 0, 1>>), HUint(Ones(64)),
   HFloat(FALSE, <<1>>, -1), HFloat(TRUE, <<1, 1>>, 2)}

\* The host values a round trip is tried on.
Primitives ==
  {HNil, HBool(TRUE), HBool(FALSE)} \cup Numbers
    \cup {HStr(b) : b \in Strings} \cup {HBytes(b) : b \in Strings}

\* ------------------------------------------------------------------ binding tables
\* Go objects the binding tables of a run are made of, at most.
MaxObjs == 40
\* Binding-table operations in a run, at most.
MaxSteps == 3

Objs == 1..MaxObjs

\* The keys of the three maps, in the order a range loop visits them ("fwd")
\* or in the opposite order ("rev"): Go fixes no iteration order.
ModNames == <<"main">>
ClassNames == <<"A", "B">>
Sigs == <<"f()", "g()", "static f()">>
Orders == {"fwd", "rev"}
Range(seq) == {seq[i] : i \in 1..Len(seq)}
Reverse(seq) == [i \in 1..Len(seq) |-> seq[Len(seq) + 1 - i]]
InOrder(seq, ord) == IF ord = "fwd" THEN seq ELSE Reverse(seq)

\* What a map holds under a key: no entry, a nil pointer or nil function, or
\* an object (ClassMap, ModuleMap) or a function (MethodMap).
Absent == -1
Nil == 0
\* The ForeignMethodFn / ForeignInitializer / ForeignFinalizer values of the
\* host; the last is the one host code installs after the tables were built.
Fns == 1..3

FreeObj == [k |-> "free", m |-> <<>>, init |-> Nil, fin |-> Nil, ref |-> Nil]
\* type MethodMap map[string]ForeignMethodFn
MethodMapObj(m) == [FreeObj EXCEPT !.k = "MethodMap", !.m = m]
\* type ForeignClass struct { Initializer; Finalizer; MethodMap }
ForeignClassObj(initializer, finalizer, methods) ==
  [FreeObj EXCEPT !.k = "ForeignClass", !.init = initializer,
                  !.fin = finalizer, !.ref = methods]
\* type ClassMap map[string]*ForeignClass
ClassMapObj(m) == [FreeObj EXCEPT !.k = "ClassMap", !.m = m]
\* type Module struct { ClassMap ClassMap }
ModuleObj(classes) == [FreeObj EXCEPT !.k = "Module", !.ref = classes]
\* type ModuleMap map[string]*Module
ModuleMapObj(m) == [FreeObj EXCEPT !.k = "ModuleMap", !.m = m]

NoEntries(keys) == [x \in Range(keys) |-> Absent]

\* m[key] of a Go map (0: the nil map, which reads as empty).
Entry(hp, map, key) ==
  IF map = Nil THEN Absent
  ELSE IF key \in DOMAIN hp[map].m THEN hp[map].m[key] ELSE Absent

\* The result of a function over the heap: the heap after it, the reference
\* it returns and how it ended ("ok", "panic": a nil dereference or a write
\* to a nil map, "full": the heap of the model has no room).
Res(hp, ref, st) == [hp |-> hp, ref |-> ref, st |-> st]

\* new(T) / make(T): the object at the lowest free address.
Alloc(hp, obj) ==
  LET free == {i \in Objs : hp[i].k = "free"} IN
  IF free = {} THEN Res(hp, Nil, "full")
  ELSE LET i == CHOOSE x \in free : \A y \in free : x <= y IN
       Res([hp EXCEPT ![i] = obj], i, "ok")

\* A Clone that hands back the map it was called on.
CloneShared(hp, methods) == Res(hp, methods, "ok")

\* func (methods MethodMap) Clone() MethodMap
MethodMapClone(hp, methods) ==
  Alloc(hp, MethodMapObj([s \in Range(Sigs) |-> Entry(hp, methods, s)]))

\* A Merge that copies every entry of the source, nil functions included.
MethodMapMergeAll(hp, methods, source) ==
  LET fns == {s \in Range(Sigs) : Entry(hp, source, s) # Absent} IN
  IF fns = {} THEN Res(hp, methods, "ok")
  ELSE IF methods = Nil THEN Res(hp, methods, "panic")
  ELSE Res([hp EXCEPT ![methods].m =
              [s \in Range(Sigs) |-> IF s \in fns THEN hp[source].m[s] ELSE @[s]]],
           methods, "ok")

\* A Merge that keeps the receiver's function where both maps have the key.
MethodMapMergeNew(hp, methods, source) ==
  LET fns == {s \in Range(Sigs) : Entry(hp, source, s) \notin {Absent, Nil}} IN
  IF fns = {} THEN Res(hp, methods, "ok")
  ELSE IF methods = Nil THEN Res(hp, methods, "panic")
  ELSE Res([hp EXCEPT ![methods].m =
              [s \in Range(Sigs) |->
                 IF s \in fns /\ @[s] = Absent THEN hp[source].m[s] ELSE @[s]]],
           methods, "ok")

\* A Merge that makes the receiver hold what the source holds and no more.
MethodMapMergeReplace(hp, methods, source) ==
  LET fns == {s \in Range(Sigs) : Entry(hp, source, s) \notin {Absent, Nil}} IN
  IF fns = {} THEN Res(hp, methods, "ok")
  ELSE IF methods = Nil THEN Res(hp, methods, "panic")
  ELSE Res([hp EXCEPT ![methods].m =
              [s \in Range(Sigs) |-> IF s \in fns THEN hp[source].m[s] ELSE Absent]],
           methods, "ok")

\* func (methods MethodMap) Merge(source MethodMap) MethodMap
\* The loop stores source's non-nil functions; a store into a nil map panics.
MethodMapMerge(hp, methods, source) ==
  LET fns == {s \in Range(Sigs) : Entry(hp, source, s) \notin {Absent, Nil}} IN
  IF fns = {} THEN Res(hp, methods, "ok")
  ELSE IF methods = Nil THEN Res(hp, methods, "panic")
  ELSE Res([hp EXCEPT ![methods].m =
              [s \in Range(Sigs) |-> IF s \in fns THEN hp[source].m[s] ELSE @[s]]],
           methods, "ok")

\* func NewClass(initializer, finalizer, methods) *ForeignClass
NewClass(hp, initializer, finalizer, methods) ==
  LET mm == IF methods = Nil THEN Alloc(hp, MethodMapObj(NoEntries(Sigs)))
            ELSE Res(hp, methods, "ok")
  IN IF mm.st # "ok" THEN mm
     ELSE Alloc(mm.hp, ForeignClassObj(initializer, finalizer, mm.ref))

\* func (class *ForeignClass) Clone() *ForeignClass
ForeignClassClone(hp, class) ==
  IF class = Nil THEN Res(hp, Nil, "panic")       \* class.Initializer of nil
  ELSE LET mm == MethodMapClone(hp, hp[class].ref) IN
       IF mm.st # "ok" THEN mm
       ELSE NewClass(mm.hp, hp[class].init, hp[class].fin, mm.ref)

\* for name, class := range classes { newMap[name] = class.Clone() }
RECURSIVE CloneClasses(_, _, _, _)
CloneClasses(hp, classes, newMap, names) ==
  IF names = <<>> THEN Res(hp, newMap, "ok")
  ELSE LET name == Head(names)
           class == Entry(hp, classes, name)
       IN IF class = Absent THEN CloneClasses(hp, classes, newMap, Tail(names))
          ELSE LET c == ForeignClassClone(hp, class) IN
               IF c.st # "ok" THEN c
               ELSE CloneClasses([c.hp EXCEPT ![newMap].m[name] = c.ref],
                                 classes, newMap, Tail(names))

\* func (classes ClassMap) Clone() ClassMap
ClassMapClone(hp, classes) ==
  LET newMap == Alloc(hp, ClassMapObj(NoEntries(ClassNames))) IN
  IF newMap.st # "ok" THEN newMap
  ELSE CloneClasses(newMap.hp, classes, newMap.ref, ClassNames)

\* func NewModule(classes ClassMap) *Module
NewModule(hp, classes) ==
  LET c == ClassMapClone(hp, classes) IN
  IF c.st # "ok" THEN c ELSE Alloc(c.hp, ModuleObj(c.ref))

\* A Module.Clone that builds the new Module around the ClassMap it has.
ModuleCloneShallow(hp, module) ==
  IF module = Nil THEN Res(hp, Nil, "panic")
  ELSE Alloc(hp, ModuleObj(hp[module].ref))

\* func (module *Module) Clone() *Module
ModuleClone(hp, module) ==
  IF module = Nil THEN Res(hp, Nil, "panic")      \* module.ClassMap of nil
  ELSE LET c == ClassMapClone(hp, hp[module].ref) IN
       IF c.st # "ok" THEN c ELSE NewModule(c.hp, c.ref)

\* for name, module := range modules { newMap[name] = module.Clone() }
RECURSIVE CloneModules(_, _, _, _)
CloneModules(hp, modules, newMap, names) ==
  IF names = <<>> THEN Res(hp, newMap, "ok")
  ELSE LET name == Head(names)
           module == Entry(hp, modules, name)
       IN IF module = Absent THEN CloneModules(hp, modules, newMap, Tail(names))
          ELSE LET c == ModuleClone(hp, module) IN
               IF c.st # "ok" THEN c
               ELSE CloneModules([c.hp EXCEPT ![newMap].m[name] = c.ref],
                                 modules, newMap, Tail(names))

\* func (modules ModuleMap) Clone() ModuleMap
ModuleMapClone(hp, modules) ==
  LET newMap == Alloc(hp, ModuleMapObj(NoEntries(ModNames))) IN
  IF newMap.st # "ok" THEN newMap
  ELSE CloneModules(newMap.hp, modules, newMap.ref, ModNames)

\* func (classes ClassMap) Merge(source ClassMap) ClassMap
\*   for name, class := range source { if class != nil {
\*     classes[name].MethodMap.Merge(class.MethodMap) } }
\* names: the source's keys still to visit.
RECURSIVE ClassMapMerge(_, _, _, _)
ClassMapMerge(hp, classes, source, names) ==
  IF names = <<>> THEN Res(hp, classes, "ok")
  ELSE LET name == Head(names)
           class == Entry(hp, source, name)
           mine == Entry(hp, classes, name)
       IN IF class \in {Absent, Nil}
          THEN ClassMapMerge(hp, classes, source, Tail(names))
          ELSE IF mine \in {Absent, Nil}
          THEN Res(hp, classes, "panic")     \* classes[name] is a nil pointer
          ELSE LET r == MethodMapMerge(hp, hp[mine].ref, hp[class].ref) IN
               IF r.st # "ok" THEN Res(r.hp, classes, r.st)
               ELSE ClassMapMerge(r.hp, classes, source, Tail(names))

\* func (modules ModuleMap) Merge(source ModuleMap) ModuleMap
\*   for name, module := range source { if module != nil {
\*     modules[name].ClassMap.Merge(module.ClassMap) } }
\* names: the source's keys still to visit; ord: the order of the inner loops.
RECURSIVE ModuleMapMerge(_, _, _, _, _)
ModuleMapMerge(hp, modules, source, names, ord) ==
  IF names = <<>> THEN Res(hp, modules, "ok")
  ELSE LET name == Head(names)
           module == Entry(hp, source, name)
           mine == Entry(hp, modules, name)
       IN IF module \in {Absent, Nil}
          THEN ModuleMapMerge(hp, modules, source, Tail(names), ord)
          ELSE IF mine \in {Absent, Nil}
          THEN Res(hp, modules, "panic")     \* modules[name] is a nil pointer
          ELSE LET r == ClassMapMerge(hp, hp[mine].ref, hp[module].ref,
                                      InOrder(ClassNames, ord))
               IN IF r.st # "ok" THEN Res(r.hp, modules, r.st)
                  ELSE ModuleMapMerge(r.hp, modules, source, Tail(names), ord)

\* VM.moduleMap: NewVM makes one for each VM (make(ModuleMap)).
moduleMap(v) == v

\* A SetModule that stores the Module it is given.
SetModuleShared(hp, v, name, module) ==
  IF module = Nil THEN Res(hp, Nil, "panic")
  ELSE Res([hp EXCEPT ![moduleMap(v)].m[name] = module], Nil, "ok")

\* func (vm *VM) SetModule(name string, module *Module)
SetModule(hp, v, name, module) ==
  LET c == ModuleClone(hp, module) IN
  IF c.st # "ok" THEN c
  ELSE Res([c.hp EXCEPT ![moduleMap(v)].m[name] = c.ref], Nil, "ok")

\* func (vm *VM) Merge(moduleMap ModuleMap)
\* The map ModuleMap.Merge returns is dropped: the host gets nothing back.
VMMerge(hp, v, source, ord) ==
  LET r == ModuleMapMerge(hp, moduleMap(v), source, InOrder(ModNames, ord), ord)
  IN Res(r.hp, Nil, r.st)

\* bindForeignMethodFn: the function the VM's table holds for a foreign method
\* declaration (key: the signature, with "static " in front for a static
\* method), Absent when the module, the class or the key is not there.
BoundMethod(hp, v, module, class, key) ==
  LET mod == Entry(hp, moduleMap(v), module) IN
  IF mod \in {Absent, Nil} THEN Absent
  ELSE LET c == Entry(hp, hp[mod].ref, class) IN
       IF c \in {Absent, Nil} THEN Absent ELSE Entry(hp, hp[c].ref, key)

\* bindForeignClassFn: the Initializer and Finalizer the VM's table holds for
\* a foreign class, Absent when the module or the class is not there.
BoundClass(hp, v, module, class) ==
  LET mod == Entry(hp, moduleMap(v), module) IN
  IF mod \in {Absent, Nil} THEN <<Absent, Absent>>
  ELSE LET c == Entry(hp, hp[mod].ref, class) IN
       IF c \in {Absent, Nil} THEN <<Absent, Absent>>
       ELSE <<hp[c].init, hp[c].fin>>

\* The objects an object refers to, and all those reachable from a set.
Refs(hp, i) ==
  IF hp[i].k \in {"ForeignClass", "Module"} THEN {hp[i].ref} \ {Nil}
  ELSE IF hp[i].k \in {"ClassMap", "ModuleMap"}
  THEN {hp[i].m[x] : x \in DOMAIN hp[i].m} \ {Absent, Nil}
  ELSE {}

RECURSIVE Reach(_, _)
Reach(hp, S) ==
  LET T == S \cup UNION {Refs(hp, i) : i \in S} IN
  IF T = S THEN S ELSE Reach(hp, T)

\* Go's collector: what nothing refers to any more is gone.
Collect(hp, roots) ==
  LET live == Reach(hp, roots) IN
  [i \in Objs |-> IF i \in live THEN hp[i] ELSE FreeObj]

\* The objects host code can get at, and those of type k among them.
Known == Reach(heap, held)
Held(k) == {x \in Known : heap[x].k = k}

\* The process is alive and the run has a binding-table operation left.
CanBind == ~crashed /\ bt.n < MaxSteps

\* A binding-table operation op on recv with argument src ends with result r;
\* the host keeps the reference it got back, and the one it cloned.  orig
\* and copy name the object cloned last and its clone; chain says that recv
\* is the clone the operation just before returned; changed, that the
\* operation wrote to an object that existed before it.  A panic ends the
\* process.
BindDone(op, recv, src, r) ==
  LET got == (IF r.st = "ok" /\ r.ref # Nil THEN {r.ref} ELSE {})
               \cup (IF op = "Clone" THEN {recv} ELSE {})
  IN
  /\ r.st # "full"
  /\ heap' = Collect(r.hp, held \cup got \cup {moduleMap(v) : v \in VMs})
  /\ held' = held \cup got
  /\ bt' = [n |-> bt.n + 1, op |-> op, recv |-> recv, src |-> src,
            ret |-> r.ref, panic |-> (r.st = "panic"),
            changed |-> (\E i \in Objs : heap[i].k # "free" /\ r.hp[i] # heap[i]),
            chain |-> (bt.op = "Clone" /\ ~bt.panic /\ bt.ret = recv),
            orig |-> IF op = "Clone" /\ r.st = "ok" THEN recv ELSE bt.orig,
            copy |-> IF op = "Clone" /\ r.st = "ok" THEN r.ref ELSE bt.copy]
  /\ crashed' = (r.st = "panic")
  /\ UNCHANGED <<bridgeVars, foreignVars, dispatchVars, methodVars, registryVars>>

\* x.Clone(), for an object of any of the five types.
Clone(x) ==
  /\ CanBind
  /\ BindDone("Clone", x, Nil,
       CASE heap[x].k = "MethodMap" -> MethodMapClone(heap, x)
         [] heap[x].k = "ForeignClass" -> ForeignClassClone(heap, x)
         [] heap[x].k = "ClassMap" -> ClassMapClone(heap, x)
         [] heap[x].k = "Module" -> ModuleClone(heap, x)
         [] heap[x].k = "ModuleMap" -> ModuleMapClone(heap, x))

\* NewModule(classes)
NewModuleCall(classes) ==
  /\ CanBind
  /\ BindDone("NewModule", classes, Nil, NewModule(heap, classes))

\* recv.Merge(source), for two maps of the same type.
Merge(recv, source, ord) ==
  /\ CanBind
  /\ heap[recv].k = heap[source].k
  /\ heap[recv].k \in {"MethodMap", "ClassMap", "ModuleMap"}
  /\ heap[recv].k = "MethodMap" => ord = "fwd"
  /\ BindDone("Merge", recv, source,
       CASE heap[recv].k = "MethodMap" -> MethodMapMerge(heap, recv, source)
         [] heap[recv].k = "ClassMap" ->
              ClassMapMerge(heap, recv, source, InOrder(ClassNames, ord))
         [] heap[recv].k = "ModuleMap" ->
              ModuleMapMerge(heap, recv, source, InOrder(ModNames, ord), ord))

\* vm.SetModule(name, module)
SetModuleCall(v, name, module) ==
  /\ CanBind
  /\ BindDone("SetModule", moduleMap(v), module, SetModule(heap, v, name, module))

\* vm.Merge(source)
VMMergeCall(v, source, ord) ==
  /\ CanBind
  /\ BindDone("VM.Merge", moduleMap(v), source, VMMerge(heap, v, source, ord))

\* Host code changes a table it holds: methods[sig] = fn, delete(methods,
\* sig), classes[name] = NewClass(nil, nil, nil), delete(classes, name),
\* modules[name] = NewModule(nil), delete(modules, name).
HostStore(x, key, fresh) ==
  /\ CanBind
  /\ heap[x].k \in {"MethodMap", "ClassMap", "ModuleMap"}
  /\ key \in DOMAIN heap[x].m
  /\ LET new == CASE ~fresh -> Res(heap, Absent, "ok")
                  [] fresh /\ heap[x].k = "MethodMap" -> Res(heap, 3, "ok")
                  [] fresh /\ heap[x].k = "ClassMap" -> NewClass(heap, Nil, Nil, Nil)
                  [] fresh /\ heap[x].k = "ModuleMap" -> NewModule(heap, Nil)
     IN /\ new.ref # heap[x].m[key]
        /\ BindDone("HostStore", x, Nil,
                    Res([new.hp EXCEPT ![x].m[key] = new.ref], Nil, new.st))

\* Host code assigns to a field of a struct it holds: class.Initializer = fn,
\* class.Finalizer = fn, module.ClassMap = nil.
HostSet(x, field) ==
  /\ CanBind
  /\ \/ /\ heap[x].k = "ForeignClass" /\ field = "init" /\ heap[x].init # 3
        /\ BindDone("HostSet", x, Nil, Res([heap EXCEPT ![x].init = 3], Nil, "ok"))
     \/ /\ heap[x].k = "ForeignClass" /\ field = "fin" /\ heap[x].fin # 3
        /\ BindDone("HostSet", x, Nil, Res([heap EXCEPT ![x].fin = 3], Nil, "ok"))
     \/ /\ heap[x].k = "Module" /\ field = "ref" /\ heap[x].ref # Nil
        /\ BindDone("HostSet", x, Nil, Res([heap EXCEPT ![x].ref = Nil], Nil, "ok"))

\* The tables host code has built before any of them is attached: two method
\* maps m1 and m2; class 5 = NewClass(fn 1, fn 1, m1) and class 6 with m2;
\* the class maps {"A": 5} and {"A": 6, "B": b}; a Module around each and a
\* ModuleMap {"main": ...} around each Module.  Objects 1 and 2 are the VMs'
\* own module maps, which NewVM leaves empty.
Tables(m1, m2, b) ==
  [i \in Objs |->
     CASE i \in VMs -> ModuleMapObj(NoEntries(ModNames))
       [] i = 3 -> MethodMapObj(m1)
       [] i = 4 -> MethodMapObj(m2)
       [] i = 5 -> ForeignClassObj(1, 1, 3)
       [] i = 6 -> ForeignClassObj(2, Nil, 4)
       [] i = 7 -> ClassMapObj([NoEntries(ClassNames) EXCEPT !["A"] = 5])
       [] i = 8 -> ClassMapObj([NoEntries(ClassNames) EXCEPT !["A"] = 6, !["B"] = b])
       [] i = 9 -> ModuleObj(7)
       [] i = 10 -> ModuleObj(8)
       [] i = 11 -> ModuleMapObj([NoEntries(ModNames) EXCEPT !["main"] = 9])
       [] i = 12 -> ModuleMapObj([NoEntries(ModNames) EXCEPT !["main"] = 10])
       [] OTHER -> FreeObj]

Methods(f, g) == [NoEntries(Sigs) EXCEPT !["f()"] = f, !["g()"] = g]

NoBind == [n |-> 0, op |-> "none", recv |-> Nil, src |-> Nil, ret |-> Nil,
           panic |-> FALSE, changed |-> FALSE, chain |-> FALSE, orig |-> Nil,
           copy |-> Nil]

\* ------------------------------------------------------------------ the foreign object table
\* The addresses the guest's allocator hands out for foreign objects, and how
\* many foreign objects a run allocates.
MaxAddrs == 2
MaxMade == 3
Addrs == 1..MaxAddrs
\* Each VM is run by a goroutine of its own.
Threads == VMs

\* type foreignInstance struct { finalizer; vm; value }, and no entry.
foreignInstance(finalizer, v, value) ==
  [k |-> "entry", finalizer |-> finalizer, vm |-> v, value |-> value]
NoInstance == [k |-> "none", finalizer |-> Nil, vm |-> 0, value |-> Nil]

\* sync.RWMutex
Unlocked == [w |-> 0, r |-> {}]
CanLock(mux) == mux.w = 0 /\ mux.r = {}
CanRLock(mux) == mux.w = 0

Idle == [pc |-> "idle", a |-> 0, inst |-> NoInstance]
NoObject == [st |-> "free", vm |-> 0, bound |-> FALSE, made |-> NoInstance,
             calls |-> 0]
NoForeign == [op |-> "none", t |-> 0, a |-> 0, bound |-> FALSE,
              made |-> NoInstance, found |-> FALSE, calls |-> 0,
              args |-> <<0, Nil>>, gone |-> FALSE, value |-> Nil,
              err |-> "none", count |-> 0]

\* foreign, ok := foreignMap[ptr]: what the map holds, or, once a data race
\* has hit the map, that or nothing.
Lookup(a) == IF torn THEN {foreignMap[a], NoInstance} ELSE {foreignMap[a]}

\* An allocate callback without `if err != nil { return nil, err }`: it
\* reports the Initializer's error and goes on to wrenSetSlotNewForeign.
ConstructBeginRegardless(t, class, fails, a) ==
  LET bound == BoundClass(heap, t, "main", class)
      value == IF bound[1] = Nil \/ fails THEN Nil ELSE fh.count + 1
  IN /\ ~crashed
     /\ thread[t].pc = "idle"
     /\ fh.count < MaxMade
     /\ bound[1] # Absent
     /\ fails => bound[1] # Nil
     /\ guest[a].st = "free"
     /\ thread' = [thread EXCEPT ![t] =
          [pc |-> "lock", a |-> a, inst |-> foreignInstance(bound[2], t, value)]]
     /\ guest' = [guest EXCEPT ![a] =
          [st |-> "live", vm |-> t, bound |-> TRUE,
           made |-> foreignInstance(bound[2], t, value), calls |-> 0]]
     /\ fh' = IF fails
              THEN [NoForeign EXCEPT !.op = "construct", !.t = t,
                                     !.err = "error", !.count = fh.count + 1]
              ELSE [fh EXCEPT !.count = fh.count + 1]
     /\ UNCHANGED <<foreignMap, torn, foreignMapMux, crashed, bridgeVars, bindVars, dispatchVars, methodVars, registryVars>>

\* The guest constructs an object of a foreign class of module "main" on VM
\* t; the allocate callback is the closure bindForeignClassFn registered:
\*   if class.Initializer != nil { foreign, err = class.Initializer(...) }
\*   if err != nil { return nil, err }
\*   ptr := C.wrenSetSlotNewForeign(vm.vm, 0, 0, 1)
\* fails: the Initializer returns an error; a: the address the guest picks.
ConstructBegin(t, class, fails, a) ==
  LET bound == BoundClass(heap, t, "main", class)
      value == IF bound[1] = Nil THEN Nil ELSE fh.count + 1
  IN /\ ~crashed
     /\ thread[t].pc = "idle"
     /\ fh.count < MaxMade
     /\ bound[1] # Absent
     /\ fails => bound[1] # Nil
     /\ guest[a].st = "free"
     /\ IF fails
        THEN /\ fh' = [NoForeign EXCEPT !.op = "construct", !.t = t,
                                        !.err = "error", !.count = fh.count + 1]
             /\ UNCHANGED <<thread, guest>>
        ELSE /\ thread' = [thread EXCEPT ![t] =
                  [pc |-> "lock", a |-> a,
                   inst |-> foreignInstance(bound[2], t, value)]]
             /\ guest' = [guest EXCEPT ![a] =
                  [st |-> "live", vm |-> t, bound |-> TRUE,
                   made |-> foreignInstance(bound[2], t, value), calls |-> 0]]
             /\ fh' = [fh EXCEPT !.count = fh.count + 1]
     /\ UNCHANGED <<foreignMap, torn, foreignMapMux, crashed, bridgeVars, bindVars, dispatchVars, methodVars, registryVars>>

\*   foreignMapMux.Lock()
ConstructLock(t) ==
  /\ ~crashed
  /\ thread[t].pc = "lock"
  /\ CanLock(foreignMapMux)
  /\ foreignMapMux' = [foreignMapMux EXCEPT !.w = t]
  /\ thread' = [thread EXCEPT ![t].pc = "insert"]
  /\ UNCHANGED <<foreignMap, torn, guest, fh, crashed, bridgeVars, bindVars, dispatchVars, methodVars, registryVars>>

\*   defer foreignMapMux.Unlock()
\*   foreignMap[ptr] = foreignInstance{finalizer: class.Finalizer, vm, value}
ConstructInsert(t) ==
  LET a == thread[t].a IN
  /\ ~crashed
  /\ thread[t].pc = "insert"
  /\ foreignMap' = [foreignMap EXCEPT ![a] = thread[t].inst]
  /\ foreignMapMux' = [foreignMapMux EXCEPT !.w = 0]
  /\ thread' = [thread EXCEPT ![t] = Idle]
  /\ fh' = [NoForeign EXCEPT !.op = "construct", !.t = t, !.a = a,
                             !.bound = TRUE, !.made = guest[a].made,
                             !.count = fh.count]
  /\ UNCHANGED <<torn, guest, crashed, bridgeVars, bindVars, dispatchVars, methodVars, registryVars>>

\* The guest constructs an object of a foreign class of its module "random",
\* for which bindForeignClassFn hands back no allocate and no finalize: the
\* guest's own allocator makes the object and the table gets no entry.
RandomNew(t, a) ==
  /\ ~crashed
  /\ thread[t].pc = "idle"
  /\ fh.count < MaxMade
  /\ guest[a].st = "free"
  /\ guest' = [guest EXCEPT ![a] = [NoObject EXCEPT !.st = "live", !.vm = t]]
  /\ fh' = [NoForeign EXCEPT !.op = "random", !.t = t, !.a = a,
                             !.count = fh.count + 1]
  /\ UNCHANGED <<foreignMap, torn, foreignMapMux, thread, crashed, bridgeVars,
                 bindVars, dispatchVars, methodVars, registryVars>>

\* func foreignFinalizerFn(ptr): the collector of VM t, on t's thread, frees
\* a foreign object made by a registered class and calls its finalize.
\*   foreignMapMux.RLock()
FinalizeBegin(t, a) ==
  /\ ~crashed
  /\ thread[t].pc = "idle"
  /\ guest[a].st = "live" /\ guest[a].vm = t /\ guest[a].bound
  /\ CanRLock(foreignMapMux)
  /\ foreignMapMux' = [foreignMapMux EXCEPT !.r = @ \cup {t}]
  /\ thread' = [thread EXCEPT ![t] = [Idle EXCEPT !.pc = "flookup", !.a = a]]
  /\ guest' = [guest EXCEPT ![a].st = "dying"]
  /\ UNCHANGED <<foreignMap, torn, fh, crashed, bridgeVars, bindVars, dispatchVars, methodVars, registryVars>>

\*   if foreign, ok := foreignMap[ptr]; ok {
\*     foreignMapMux.RUnlock()
\*     if foreign.finalizer != nil { foreign.finalizer(foreign.vm, foreign.value) }
\* and, with no entry, the deferred RUnlock and the return.
FinalizeLookup(t, inst) ==
  LET a == thread[t].a IN
  /\ ~crashed
  /\ thread[t].pc = "flookup"
  /\ inst \in Lookup(a)
  /\ foreignMapMux' = [foreignMapMux EXCEPT !.r = @ \ {t}]
  /\ IF inst.k = "entry"
     THEN /\ thread' = [thread EXCEPT ![t].pc = "delete", ![t].inst = inst]
          /\ guest' = [guest EXCEPT ![a].calls =
                         IF inst.finalizer # Nil THEN @ + 1 ELSE @]
          /\ UNCHANGED fh
     ELSE /\ thread' = [thread EXCEPT ![t] = Idle]
          /\ guest' = [guest EXCEPT ![a] = NoObject]
          /\ fh' = [NoForeign EXCEPT !.op = "finalize", !.t = t, !.a = a,
                                     !.bound = guest[a].bound,
                                     !.made = guest[a].made,
                                     !.gone = (foreignMap[a].k = "none"),
                                     !.count = fh.count]
  /\ UNCHANGED <<foreignMap, torn, crashed, bridgeVars, bindVars, dispatchVars, methodVars, registryVars>>

\*     delete(foreignMap, ptr)
\* The thread holds no lock here.  While another thread is inside its locked
\* section the delete is a data race on the map: it goes through ("done"),
\* the Go runtime stops the process with "fatal error: concurrent map
\* writes" or "concurrent map read and map write" ("fatal"), or the map is
\* left in an undefined state ("torn").
FinalizeDelete(t, outcome) ==
  LET a == thread[t].a
      race == foreignMapMux # Unlocked
  IN /\ ~crashed
     /\ thread[t].pc = "delete"
     /\ outcome \in (IF race THEN {"done", "fatal", "torn"} ELSE {"done"})
     /\ foreignMap' = IF outcome = "done"
                      THEN [foreignMap EXCEPT ![a] = NoInstance] ELSE foreignMap
     /\ torn' = (torn \/ outcome = "torn")
     /\ crashed' = (outcome = "fatal")
     /\ thread' = [thread EXCEPT ![t] = Idle]
     /\ guest' = [guest EXCEPT ![a] = NoObject]
     /\ fh' = [NoForeign EXCEPT !.op = "finalize", !.t = t, !.a = a,
                                !.bound = guest[a].bound,
                                !.made = guest[a].made, !.found = TRUE,
                                !.calls = guest[a].calls,
                                !.args = <<thread[t].inst.vm, thread[t].inst.value>>,
                                !.gone = (outcome = "done"),
                                !.count = fh.count]
     /\ UNCHANGED <<foreignMapMux, bridgeVars, bindVars, dispatchVars, methodVars, registryVars>>

\* func (h *ForeignHandle) Get(), on an unreleased handle of VM t to the
\* foreign object at a, called on t's thread:
\*   ptr := C.wrenGetSlotForeign(vm.vm, 0)
\*   foreignMapMux.RLock()
GetBegin(t, a) ==
  /\ ~crashed
  /\ thread[t].pc = "idle"
  /\ guest[a].st = "live" /\ guest[a].vm = t
  /\ CanRLock(foreignMapMux)
  /\ foreignMapMux' = [foreignMapMux EXCEPT !.r = @ \cup {t}]
  /\ thread' = [thread EXCEPT ![t] = [Idle EXCEPT !.pc = "glookup", !.a = a]]
  /\ UNCHANGED <<foreignMap, torn, guest, fh, crashed, bridgeVars, bindVars, dispatchVars, methodVars, registryVars>>

\*   defer foreignMapMux.RUnlock()
\*   if foreign, ok := foreignMap[ptr]; ok { return foreign.value, nil }
\*   return nil, &UnknownForeign{Handle: h}
GetEnd(t, inst) ==
  LET a == thread[t].a IN
  /\ ~crashed
  /\ thread[t].pc = "glookup"
  /\ inst \in Lookup(a)
  /\ foreignMapMux' = [foreignMapMux EXCEPT !.r = @ \ {t}]
  /\ thread' = [thread EXCEPT ![t] = Idle]
  /\ fh' = [NoForeign EXCEPT !.op = "Get", !.t = t, !.a = a,
                             !.bound = guest[a].bound, !.made = guest[a].made,
                             !.found = (inst.k = "entry"),
                             !.gone = (foreignMap[a].k = "none"),
                             !.value = inst.value,
                             !.err = IF inst.k = "entry" THEN "none"
                                     ELSE "UnknownForeign",
                             !.count = fh.count]
  /\ UNCHANGED <<foreignMap, torn, guest, crashed, bridgeVars, bindVars, dispatchVars, methodVars, registryVars>>

\* The tables of the host with module 9 attached to VM 1 as "main" (class
\* "A" with Initializer and Finalizer) and module 10 to VM 2 (class "A"
\* with an Initializer and no Finalizer).
Attached ==
  LET hp == Tables(Methods(1, Absent), Methods(Absent, 2), Absent) IN
  Collect(SetModule(SetModule(hp, 1, "main", 9).hp, 2, "main", 10).hp, 1..12)

\* No foreign object yet, nobody in the table.
InitForeign ==
  /\ foreignMap = [a \in Addrs |-> NoInstance]
  /\ torn = FALSE
  /\ foreignMapMux = Unlocked
  /\ thread = [t \in Threads |-> Idle]
  /\ guest = [a \in Addrs |-> NoObject]
  /\ fh = NoForeign

\* ------------------------------------------------------------------ dispatch callbacks
\* A *Config: has = FALSE is VM.Config = nil; a field is Nil or set.
ConfigOf(writeFn, defaultOutput, errorFn, defaultError, loadModuleFn) ==
  [has |-> TRUE, WriteFn |-> writeFn, DefaultOutput |-> defaultOutput,
   ErrorFn |-> errorFn, DefaultError |-> defaultError,
   LoadModuleFn |-> loadModuleFn]
NilConfig == [ConfigOf(Nil, Nil, Nil, Nil, Nil) EXCEPT !.has = FALSE]

\* After NewVM(): Config: &Config{}, and the package's variables as declared:
\* DefaultOutput = os.Stdout, DefaultError = os.Stderr and the file loader.
InitialConfig ==
  [vm |-> [v \in VMs |-> ConfigOf(Nil, Nil, Nil, Nil, Nil)],
   DefaultOutput |-> 1, DefaultError |-> 1, DefaultModuleLoader |-> 1]

\* A C pointer to a string: null, or the bytes it points to.
NullPtr == [null |-> TRUE, mem |-> <<>>]
Ptr(mem) == [null |-> FALSE, mem |-> mem]

NoCallback == [fn |-> "none", vm |-> 0, cfg |-> InitialConfig, text |-> <<>>,
               err |-> "none", answer |-> [source |-> <<>>, ok |-> FALSE],
               sent |-> <<>>, ret |-> NullPtr]

\* Every VM with the Config NewVM gives it, no callback yet.
InitDispatch ==
  /\ config = InitialConfig
  /\ cb = NoCallback

\* C.GoString(p): the bytes of a C string, up to its terminating NUL.
GoString(p) ==
  LET nuls == {i \in 1..Len(p) : p[i] = 0} IN
  SubSeq(p, 1, (CHOOSE i \in nuls : \A j \in nuls : i <= j) - 1)

\* One call of a host function or one io.WriteString: who got what.
Sent(to, text, err) == <<[to |-> to, text |-> text, err |-> err]>>

\* A writeFn that lets the package's stream win over the Config's.
writeFnPackageFirst(cf, reg, v, text) ==
  IF v \notin reg THEN <<>>
  ELSE LET c == cf.vm[v] IN
       IF c.has /\ c.WriteFn # Nil THEN Sent(<<"Config.WriteFn", v>>, GoString(text), "none")
       ELSE LET own == IF c.has /\ c.DefaultOutput # Nil
                       THEN <<"Config.DefaultOutput", v>> ELSE <<>>
                output == IF cf.DefaultOutput # Nil
                          THEN <<"DefaultOutput", 0>> ELSE own
            IN IF output # <<>> THEN Sent(output, GoString(text), "none") ELSE <<>>

\* func writeFn(v *C.WrenVM, text *C.char): what it hands to whom.
\* reg: the keys of vmMap.
writeFn(cf, reg, v, text) ==
  IF v \notin reg THEN <<>>
  ELSE LET c == cf.vm[v] IN
       IF c.has /\ c.WriteFn # Nil THEN Sent(<<"Config.WriteFn", v>>, GoString(text), "none")
       ELSE LET own == IF c.has /\ c.DefaultOutput # Nil
                       THEN <<"Config.DefaultOutput", v>> ELSE <<>>
                output == IF own = <<>> /\ cf.DefaultOutput # Nil
                          THEN <<"DefaultOutput", 0>> ELSE own
            IN IF output # <<>> THEN Sent(output, GoString(text), "none") ELSE <<>>

\* The guest prints text on VM v.
WriteCallback(v, text) ==
  /\ ~crashed
  /\ cb' = [NoCallback EXCEPT !.fn = "write", !.vm = v, !.cfg = config,
                              !.text = GoString(text),
                              !.sent = writeFn(config, vmMap, v, text)]
  /\ UNCHANGED <<config, crashed, bridgeVars, bindVars, foreignVars, methodVars, registryVars>>

\* The error kinds the guest reports (WrenErrorType), as the Go error values
\* errorFn makes of them.
ErrorTypes == {"CompileError", "RuntimeError", "StackTrace"}

\* func errorFn(v, errorType, module, line, message): what it hands to whom
\* (err to Config.ErrorFn, err.Error() + "\n" to a stream).
errorFn(cf, reg, v, errorType) ==
  IF v \notin reg THEN <<>>
  ELSE LET c == cf.vm[v] IN
       IF c.has /\ c.ErrorFn # Nil THEN Sent(<<"Config.ErrorFn", v>>, <<>>, errorType)
       ELSE LET own == IF c.has /\ c.DefaultError # Nil
                       THEN <<"Config.DefaultError", v>> ELSE <<>>
                output == IF cf.DefaultError # Nil THEN <<"DefaultError", 0>> ELSE own
            IN IF output # <<>> THEN Sent(output, <<>>, errorType) ELSE <<>>

\* The guest reports an error on VM v.
ErrorCallback(v, errorType) ==
  /\ ~crashed
  /\ cb' = [NoCallback EXCEPT !.fn = "error", !.vm = v, !.cfg = config,
                              !.err = errorType,
                              !.sent = errorFn(config, vmMap, v, errorType)]
  /\ UNCHANGED <<config, crashed, bridgeVars, bindVars, foreignVars, methodVars, registryVars>>

\* What a LoadModuleFn returns: (source string, found bool).
Answer(source, ok) == [source |-> source, ok |-> ok]
\* C.CString(s): a new C string, the bytes of s and a NUL.
CString(str) == str \o <<0>>

\* The moduleLoaderFn of the earlier revision (src/vm.go): a VM that is not
\* in the registry gets the package's loader, and a source comes back in
\* every case.
moduleLoaderFnAnyVM(cf, reg, v, answer) ==
  LET c == cf.vm[v]
      called == IF v \in reg /\ c.has /\ c.LoadModuleFn # Nil
                THEN <<"Config.LoadModuleFn", v>>
                ELSE IF cf.DefaultModuleLoader # Nil
                THEN <<"DefaultModuleLoader", 0>> ELSE <<>>
      source == IF called # <<>> THEN answer.source ELSE <<>>
  IN [called |-> called, source |-> Ptr(CString(source))]

\* func moduleLoaderFn(v, name) C.WrenLoadModuleResult: the loader it calls
\* and the source it returns.  answer: what the
\* loader called returns.  ok is the variable of `vm, ok := vmMap[v]`, which
\* the call of a loader assigns to.
moduleLoaderFn(cf, reg, v, answer) ==
  IF v \notin reg THEN [called |-> <<>>, source |-> NullPtr]
  ELSE LET c == cf.vm[v]
           called == IF c.has /\ c.LoadModuleFn # Nil
                     THEN <<"Config.LoadModuleFn", v>>
                     ELSE IF cf.DefaultModuleLoader # Nil
                     THEN <<"DefaultModuleLoader", 0>> ELSE <<>>
           source == IF called # <<>> THEN answer.source ELSE <<>>
           ok == IF called # <<>> THEN answer.ok ELSE TRUE
       IN [called |-> called,
           source |-> IF ok THEN Ptr(CString(source)) ELSE NullPtr]

\* The guest imports a module on VM v.
LoadModuleCallback(v, answer) ==
  LET r == moduleLoaderFn(config, vmMap, v, answer) IN
  /\ ~crashed
  /\ cb' = [NoCallback EXCEPT !.fn = "loadModule", !.vm = v, !.cfg = config,
                              !.answer = answer,
                              !.sent = IF r.called = <<>> THEN <<>>
                                       ELSE Sent(r.called, <<>>, "none"),
                              !.ret = r.source]
  /\ UNCHANGED <<config, crashed, bridgeVars, bindVars, foreignVars, methodVars, registryVars>>

\* ------------------------------------------------------------------ foreign methods
\* Foreign-method slots of a VM the model lets a run bind (the generated
\* bindings have 128: go:generate createBindings.go -bindings 128).
MaxBindings == 2

\* "Foreign class does implement a constructor." and "Fiber Aborted": the
\* bytes of the two messages the bridge itself throws, none of them a NUL.
NoConstructorMessage == <<97, 200, 97>>
FiberAbortedMessage == <<200, 97>>

\* An error value of host code: nil, or an error with its Error() string.
NilError == [is |-> FALSE, msg |-> <<>>]
ErrorOf(msg) == [is |-> TRUE, msg |-> msg]

NoMethod ==
  [op |-> "none", vm |-> 0, module |-> "", class |-> "", static |-> FALSE,
   sig |-> "", ret |-> Nil, fn |-> Nil, out |-> HNil, err |-> NilError,
   thrown |-> GNull]

\* After NewVM: bindMap: make([]ForeignMethodFn, 0); no fiber has failed.
InitMethods ==
  /\ bindMap = [v \in VMs |-> <<>>]
  /\ fiber = [v \in VMs |-> GNull]
  /\ fm = NoMethod

\* vm.registerFunc(fn): the function goes into the next slot of vm.bindMap
\* and the slot's forwarding function is returned (slots are numbered from
\* 1; Nil is the nil function pointer).
registerFunc(bm, fn) ==
  [bindMap |-> Append(bm, fn), ret |-> Len(bm) + 1, err |-> FALSE]

\* A bindForeignMethodFn that takes the signature as the key, static or not.
bindForeignMethodFnAnyKey(hp, reg, bm, v, cModule, cClassName, cIsStatic, cSignature) ==
  LET none == [bindMap |-> bm, ret |-> Nil, panic |-> FALSE] IN
  IF v \notin reg THEN none
  ELSE LET module == Entry(hp, moduleMap(v), cModule) IN
       IF module = Absent THEN none
       ELSE IF module = Nil THEN [none EXCEPT !.panic = TRUE]
       ELSE LET class == Entry(hp, hp[module].ref, cClassName) IN
            IF class = Absent THEN none
            ELSE IF class = Nil THEN [none EXCEPT !.panic = TRUE]
            ELSE LET fn == Entry(hp, hp[class].ref, cSignature) IN
                 IF fn = Absent THEN none
                 ELSE LET r == registerFunc(bm, fn) IN
                      [bindMap |-> r.bindMap, ret |-> r.ret, panic |-> r.err]

\* func bindForeignMethodFn(v, cModule, cClassName, cIsStatic, cSignature):
\* the VM's bindMap after it, the forwarding function it returns (Nil: the
\* method stays unbound) and whether Go panicked (a nil *Module or nil
\* *ForeignClass dereferenced, an error of registerFunc).
bindForeignMethodFn(hp, reg, bm, v, cModule, cClassName, cIsStatic, cSignature) ==
  LET none == [bindMap |-> bm, ret |-> Nil, panic |-> FALSE] IN
  IF v \notin reg THEN none
  ELSE LET module == Entry(hp, moduleMap(v), cModule) IN
       IF module = Absent THEN none
       ELSE IF module = Nil THEN [none EXCEPT !.panic = TRUE]
       ELSE LET class == Entry(hp, hp[module].ref, cClassName) IN
            IF class = Absent THEN none
            ELSE IF class = Nil THEN [none EXCEPT !.panic = TRUE]
            ELSE LET name == IF cIsStatic THEN "static " \o cSignature
                             ELSE cSignature
                     fn == Entry(hp, hp[class].ref, name)
                 IN IF fn = Absent THEN none
                    ELSE LET r == registerFunc(bm, fn) IN
                         [bindMap |-> r.bindMap, ret |-> r.ret, panic |-> r.err]

\* What an action of this section changes of the bridge: the slots.
CommitSlots(w) ==
  /\ slots' = w.slots
  /\ undef' = w.undef
  /\ crashed' = (crashed \/ w.panic)
  /\ UNCHANGED <<vmptr, vmMap, vmhandles, hobj, native, stack, rel, last, mv>>
  /\ UNCHANGED <<bindVars, foreignVars, dispatchVars, registryVars>>

\* The guest, compiling a foreign method declaration on v, asks for its
\* binding.
BindMethodCallback(v, cModule, cClassName, cIsStatic, cSignature) ==
  LET r == bindForeignMethodFn(heap, vmMap, bindMap[v], v, cModule, cClassName,
                               cIsStatic, cSignature)
  IN /\ GuestTurn(v)
     /\ fiber[v] = GNull
     /\ Len(bindMap[v]) < MaxBindings
     /\ bindMap' = [bindMap EXCEPT ![v] = r.bindMap]
     /\ crashed' = (crashed \/ r.panic)
     /\ fm' = [NoMethod EXCEPT !.op = "bind", !.vm = v, !.module = cModule,
                               !.class = cClassName, !.static = cIsStatic,
                               !.sig = cSignature, !.ret = r.ret,
                               !.fn = IF r.ret = Nil THEN Nil
                                      ELSE r.bindMap[r.ret]]
     /\ UNCHANGED <<fiber, bridgeVars, bindVars, foreignVars, dispatchVars, registryVars>>

\* wrenAbortFiber(vm, slot): the running fiber's error becomes the value in
\* the slot (a null there leaves the fiber without an error).
wrenAbortFiber(fib, w, v, slot) == [fib EXCEPT ![v] = w.slots[v][slot]]

\* wrenSetSlotString(vm, slot, text): slot := a guest string holding a copy
\* of the bytes of the C string.
wrenSetSlotString(w, v, slot, text) ==
  [AbiOn(w, v) EXCEPT !.slots[v][slot] = GStr(GoString(text))]

\* An Abort that leaves the fiber alone.
AbortSilent(w, fib, v, err) ==
  LET r == setSlotValue(AbiOn(w, v), v,
                        HStr(IF err.is THEN err.msg ELSE FiberAbortedMessage), 0)
  IN [w |-> r.w, fiber |-> fib]

\* func (vm *VM) Abort(err error)
Abort(w, fib, v, err) ==
  LET r == setSlotValue(AbiOn(w, v), v,        \* wrenEnsureSlots(vm.vm, 1)
                        HStr(IF err.is THEN err.msg ELSE FiberAbortedMessage), 0)
  IN [w |-> AbiOn(r.w, v), fiber |-> wrenAbortFiber(fib, r.w, v, 0)]

\* The forwarding function of slot i of VM v, called by the guest for a
\* foreign method bound to it: it calls vm.bindMap[i] with the slots as
\* parameters; the function returns (out, err); an error goes to vm.Abort,
\* a value without error into slot 0.  The guest passes primitive values.
ForeignMethodCall(v, i, out, err) ==
  /\ GuestTurn(v)
  /\ v \in vmMap
  /\ fiber[v] = GNull
  /\ i \in 1..Len(bindMap[v])
  /\ LET fn == bindMap[v][i] IN
     /\ fm' = [NoMethod EXCEPT !.op = "call", !.vm = v, !.ret = i, !.fn = fn,
                               !.out = out, !.err = err]
     /\ IF fn = Nil          \* a call of a nil func value: Go panics
        THEN /\ CommitSlots([World EXCEPT !.panic = TRUE])
             /\ UNCHANGED <<bindMap, fiber>>
        ELSE IF err.is
        THEN LET r == Abort(World, fiber, v, err) IN
             /\ CommitSlots(r.w)
             /\ fiber' = r.fiber
             /\ UNCHANGED bindMap
        ELSE /\ CommitSlots(setSlotValue(World, v, out, 0).w)
             /\ UNCHANGED <<bindMap, fiber>>

\* func bindForeignClassFn(v, cModule, cClassName): what the guest gets as
\* the allocate and finalize functions of a foreign class.
bindForeignClassFn(hp, reg, v, cModule, cClassName) ==
  LET module == IF v \in reg THEN Entry(hp, moduleMap(v), cModule) ELSE Absent
      class == IF module \in {Absent, Nil} THEN Absent
               ELSE Entry(hp, hp[module].ref, cClassName)
  IN IF v \in reg /\ Nil \in {module, class}
     THEN [allocate |-> "panic", finalize |-> "panic"]
     ELSE IF class # Absent
     THEN [allocate |-> "initializer", finalize |-> "foreignFinalizerFn"]
     ELSE IF cModule = "random"
     THEN [allocate |-> "nil", finalize |-> "nil"]
     ELSE [allocate |-> "invalidConstructor", finalize |-> "nil"]

\* An invalidConstructor that throws nothing.
invalidConstructorNoAbort(w, fib, v) ==
  LET w1 == wrenSetSlotString(CScoped(AbiOn(w, v), 1), v, 0,
                              CString(NoConstructorMessage))
  IN [w |-> w1, fiber |-> fib]

\* func invalidConstructor(v *C.WrenVM)
invalidConstructor(w, fib, v) ==
  LET w1 == wrenSetSlotString(CScoped(AbiOn(w, v), 1), v, 0,   \* err := C.CString
                              CString(NoConstructorMessage))
  IN [w |-> AbiOn(w1, v), fiber |-> wrenAbortFiber(fib, w1, v, 0)]

\* The guest constructs an object of a foreign class for which
\* bindForeignClassFn handed it invalidConstructor as the allocate function.
ConstructInvalid(v, cModule, cClassName) ==
  /\ GuestTurn(v)
  /\ fiber[v] = GNull
  /\ bindForeignClassFn(heap, vmMap, v, cModule, cClassName).allocate
       = "invalidConstructor"
  /\ LET r == invalidConstructor(World, fiber, v) IN
     /\ CommitSlots(r.w)
     /\ fiber' = r.fiber
  /\ fm' = [NoMethod EXCEPT !.op = "construct", !.vm = v, !.module = cModule,
                            !.class = cClassName]
  /\ UNCHANGED bindMap

\* The guest ran the failed fiber with try(): the fiber's error is what
\* try() returns to the calling fiber, which goes on.
FiberTry(v) ==
  /\ GuestTurn(v)
  /\ fiber[v] # GNull
  /\ fiber' = [fiber EXCEPT ![v] = GNull]
  /\ fm' = [fm EXCEPT !.op = fm.op \o ".try", !.vm = v, !.thrown = fiber[v]]
  /\ UNCHANGED <<bindMap, crashed, bridgeVars, bindVars, foreignVars, dispatchVars, registryVars>>

\* Nothing catches the fiber's error: wrenInterpret returns
\* WREN_RESULT_RUNTIME_ERROR and InterpretString the error made of it.
AbortedReturn(v) ==
  /\ GuestTurn(v)
  /\ Top(v) = "interp"
  /\ fiber[v] # GNull
  /\ Pop(v)
  /\ fiber' = [fiber EXCEPT ![v] = GNull]
  /\ fm' = [fm EXCEPT !.op = fm.op \o ".uncaught", !.vm = v, !.thrown = fiber[v]]
  /\ last' = Done("InterpretString.return", v, 0,
                  resultsToError("RUNTIME_ERROR"), CScoped(World, 2), FALSE)
  /\ UNCHANGED <<vmptr, vmMap, vmhandles, hobj, native, slots, undef, crashed,
                 rel, mv, bindMap, bindVars, foreignVars, dispatchVars, registryVars>>

\* ------------------------------------------------------------------ the VM registry
\* How deep the calls of one goroutine nest (frames on its stack).
MaxNest == 3

\* The guest's callbacks that look their VM up in vmMap.
Trampolines == {"writeFn", "errorFn", "moduleLoaderFn", "bindForeignMethodFn",
                "bindForeignClassFn"}

\* A frame of a goroutine: pc is where it is,
\*   "NewVM.lock"   at vmMapMux.Lock() of NewVM
\*   "NewVM.insert" before vmMap[vm.vm] = &vm
\*   "Free.lock"    at vmMapMux.Lock() of VM.Free
\*   "Free.delete"  before delete(vmMap, vm.vm)
\*   "Free.guest"   inside C.wrenFreeVM(vm.vm)
\*   "guest"        inside C.wrenInterpret
\*   "rlock"        at vmMapMux.RLock() of a trampoline
\*   "lookup"       before vm, ok := vmMap[v]
\*   "host"         inside code the host supplied
\* v the VM, fn the function, fin the finalize calls wrenFreeVM has still to
\* make, unlocked the trampoline's variable of that name, n the RUnlock
\* calls the trampoline has made.
Frame(pc, v, fn) ==
  [pc |-> pc, v |-> v, fn |-> fn, fin |-> 0, unlocked |-> FALSE, n |-> 0]
FreePcs == {"Free.lock", "Free.delete", "Free.guest"}
NewVMPcs == {"NewVM.lock", "NewVM.insert"}

NoAccess ==
  [op |-> "none", t |-> 0, v |-> 0, fn |-> "", found |-> FALSE, sent |-> <<>>,
   source |-> NullPtr, method |-> Nil,
   class |-> [allocate |-> "nil", finalize |-> "nil"], host |-> FALSE,
   n |-> 0]

\* No goroutine is in anything, nobody holds vmMapMux.
InitRegistry ==
  /\ vmMapMux = Unlocked
  /\ goroutine = [t \in Threads |-> <<>>]
  /\ rh = NoAccess

Innermost(t) == goroutine[t][Len(goroutine[t])]
At(t, pc) == ~crashed /\ goroutine[t] # <<>> /\ Innermost(t).pc = pc
\* Host code runs on t: the goroutine's own code, or code a trampoline or
\* the guest's collector called.
HostCode(t) ==
  ~crashed /\ (IF goroutine[t] = <<>> THEN TRUE ELSE Innermost(t).pc = "host")
Enter(t, f) == goroutine' = [goroutine EXCEPT ![t] = Append(@, f)]
Leave(t) == goroutine' = [goroutine EXCEPT ![t] = SubSeq(@, 1, Len(@) - 1)]
Goto(t, f) == goroutine' = [goroutine EXCEPT ![t][Len(goroutine[t])] = f]
\* The VMs the goroutines ts have a frame at one of pcs for.
InFrames(ts, pcs) ==
  {v \in VMs : \E t \in ts : \E i \in 1..Len(goroutine[t]) :
                 goroutine[t][i].v = v /\ goroutine[t][i].pc \in pcs}

\* What no action of the registry touches.
registryFixed == <<hobj, stack, rel, last, mv, held, bt, foreignVars, cb,
                   fiber, fm>>

\* func NewVM() *VM, called by host code on goroutine t:
\*   vm := VM{vm: C.wrenNewVM(&config), handles: make(...), ...}
\* v: the address of the new native VM, one no live VM has.
NewVMCall(t, v) ==
  /\ HostCode(t)
  /\ Len(goroutine[t]) < MaxNest
  /\ ~vmptr[v] /\ v \notin vmMap
  /\ v \notin InFrames(Threads, NewVMPcs \cup FreePcs \cup {"guest"})
  /\ Enter(t, Frame("NewVM.lock", v, "NewVM"))
  /\ rh' = [NoAccess EXCEPT !.op = "NewVM", !.t = t, !.v = v]
  /\ UNCHANGED <<registryFixed, vmptr, vmMap, vmhandles, native, slots, undef,
                 crashed, heap, config, bindMap, vmMapMux>>

\* A NewVM that registers the VM without taking the lock.
NewVMNoLock(t) ==
  /\ At(t, "NewVM.lock")
  /\ Goto(t, [Innermost(t) EXCEPT !.pc = "NewVM.insert"])
  /\ UNCHANGED <<registryFixed, vmptr, vmMap, vmhandles, native, slots, undef,
                 crashed, heap, config, bindMap, vmMapMux, rh>>

\*   vmMapMux.Lock()
NewVMLock(t) ==
  /\ At(t, "NewVM.lock")
  /\ CanLock(vmMapMux)
  /\ vmMapMux' = [vmMapMux EXCEPT !.w = t]
  /\ Goto(t, [Innermost(t) EXCEPT !.pc = "NewVM.insert"])
  /\ UNCHANGED <<registryFixed, vmptr, vmMap, vmhandles, native, slots, undef,
                 crashed, heap, config, bindMap, rh>>

\*   defer vmMapMux.Unlock()
\*   vmMap[vm.vm] = &vm
\*   return &vm
NewVMInsert(t) ==
  LET v == Innermost(t).v IN
  /\ At(t, "NewVM.insert")
  /\ vmMap' = vmMap \cup {v}
  /\ vmptr' = [vmptr EXCEPT ![v] = TRUE]
  /\ vmhandles' = [vmhandles EXCEPT ![v] = EmptyRegistry]
  /\ slots' = [slots EXCEPT ![v] = [s \in Slots |-> GNull]]
  /\ undef' = [undef EXCEPT ![v] = FALSE]
  /\ heap' = [heap EXCEPT ![moduleMap(v)] = ModuleMapObj(NoEntries(ModNames))]
  /\ config' = [config EXCEPT !.vm[v] = ConfigOf(Nil, Nil, Nil, Nil, Nil)]
  /\ bindMap' = [bindMap EXCEPT ![v] = <<>>]
  /\ vmMapMux' = [vmMapMux EXCEPT !.w = 0]
  /\ Leave(t)
  /\ rh' = [NoAccess EXCEPT !.op = "NewVM.return", !.t = t, !.v = v]
  /\ UNCHANGED <<registryFixed, native, crashed>>

\* func (vm *VM) Free(), called by host code on goroutine t for a VM whose
\* vm.vm is not nil (with vm.vm nil it takes no lock):
\*   for _, handle := range vm.handles { handle.Free() }; vm.handles = nil
\* The VMs of this section have no handles.
FreeCall(t, v) ==
  /\ HostCode(t)
  /\ Len(goroutine[t]) < MaxNest
  /\ vmptr[v]
  /\ v \notin InFrames(Threads \ {t}, FreePcs)
  /\ v \notin InFrames(Threads, NewVMPcs)
  /\ vmhandles' = [vmhandles EXCEPT ![v] = [nil |-> TRUE, m |-> EmptyRegistry.m]]
  /\ Enter(t, Frame("Free.lock", v, "VM.Free"))
  /\ rh' = [NoAccess EXCEPT !.op = "VM.Free", !.t = t, !.v = v]
  /\ UNCHANGED <<registryFixed, vmptr, vmMap, native, slots, undef, crashed,
                 heap, config, bindMap, vmMapMux>>

\*   vmMapMux.Lock()
FreeLock(t) ==
  /\ At(t, "Free.lock")
  /\ CanLock(vmMapMux)
  /\ vmMapMux' = [vmMapMux EXCEPT !.w = t]
  /\ Goto(t, [Innermost(t) EXCEPT !.pc = "Free.delete"])
  /\ UNCHANGED <<registryFixed, vmptr, vmMap, vmhandles, native, slots, undef,
                 crashed, heap, config, bindMap, rh>>

\*   defer vmMapMux.Unlock()
\*   if _, ok := vmMap[vm.vm]; ok { delete(vmMap, vm.vm) }
\* and C.wrenFreeVM(vm.vm) begins.  fin: the foreign objects of the VM the
\* guest has to finalize, each by a call of foreignFinalizerFn.
FreeDelete(t, fin) ==
  /\ At(t, "Free.delete")
  /\ fin > 0 => Len(goroutine[t]) < MaxNest
  /\ vmMap' = vmMap \ {Innermost(t).v}
  /\ Goto(t, [Innermost(t) EXCEPT !.pc = "Free.guest", !.fin = fin])
  /\ UNCHANGED <<registryFixed, vmptr, vmhandles, native, slots, undef,
                 crashed, heap, config, bindMap, vmMapMux, rh>>

\* Inside wrenFreeVM the guest calls foreignFinalizerFn for a foreign
\* object, and that the Finalizer of the object's class:
\*   foreign.finalizer(foreign.vm, foreign.value)
FinalizerCall(t) ==
  LET f == Innermost(t) IN
  /\ At(t, "Free.guest")
  /\ f.fin > 0
  /\ goroutine' = [goroutine EXCEPT ![t] =
       Append([@ EXCEPT ![Len(goroutine[t])].fin = f.fin - 1], Frame("host", f.v, "Finalizer"))]
  /\ rh' = [NoAccess EXCEPT !.op = "host", !.t = t, !.v = f.v,
                            !.fn = "Finalizer", !.host = TRUE]
  /\ UNCHANGED <<registryFixed, vmptr, vmMap, vmhandles, native, slots, undef,
                 crashed, heap, config, bindMap, vmMapMux>>

\* wrenFreeVM returns:
\*   vm.vm = nil
\* and the deferred vmMapMux.Unlock().  A guest that is running on the VM
\* (Free called from a callback, or from another goroutine) goes on running
\* in freed memory.
FreeReturn(t) ==
  LET v == Innermost(t).v
      w == VMFree(World, v)
  IN /\ At(t, "Free.guest")
     /\ Innermost(t).fin = 0
     /\ vmptr' = w.vmptr
     /\ vmMap' = w.vmMap
     /\ vmhandles' = w.vmhandles
     /\ native' = w.native
     /\ slots' = w.slots
     /\ undef' = [w.undef EXCEPT ![v] = @ \/ v \in InFrames(Threads, {"guest"})]
     /\ vmMapMux' = [vmMapMux EXCEPT !.w = 0]
     /\ Leave(t)
     /\ rh' = [NoAccess EXCEPT !.op = "VM.Free.return", !.t = t, !.v = v]
     /\ UNCHANGED <<registryFixed, crashed, heap, config, bindMap>>

\* Host code on goroutine t calls vm.InterpretString on an idle VM, which
\* enters C.wrenInterpret.
InterpretCall(t, v) ==
  /\ HostCode(t)
  /\ Len(goroutine[t]) < MaxNest
  /\ vmptr[v]
  /\ v \notin InFrames(Threads, NewVMPcs \cup FreePcs \cup {"guest"})
  /\ Enter(t, Frame("guest", v, "wrenInterpret"))
  /\ rh' = [NoAccess EXCEPT !.op = "InterpretString", !.t = t, !.v = v]
  /\ UNCHANGED <<registryFixed, vmptr, vmMap, vmhandles, native, slots, undef,
                 crashed, heap, config, bindMap, vmMapMux>>

\* wrenInterpret returns.
InterpretDone(t) ==
  /\ At(t, "guest")
  /\ Leave(t)
  /\ rh' = [NoAccess EXCEPT !.op = "InterpretString.return", !.t = t,
                            !.v = Innermost(t).v]
  /\ UNCHANGED <<registryFixed, vmptr, vmMap, vmhandles, native, slots, undef,
                 crashed, heap, config, bindMap, vmMapMux>>

\* The guest running on t calls one of the trampolines with its WrenVM
\* pointer:
\*   unlocked := false
TrampolineCall(t, fn) ==
  /\ At(t, "guest")
  /\ Len(goroutine[t]) < MaxNest
  /\ fn \in Trampolines
  /\ fn = "bindForeignMethodFn" => Len(bindMap[Innermost(t).v]) < MaxBindings
  /\ Enter(t, Frame("rlock", Innermost(t).v, fn))
  /\ UNCHANGED <<registryFixed, vmptr, vmMap, vmhandles, native, slots, undef,
                 crashed, heap, config, bindMap, vmMapMux, rh>>

\*   vmMapMux.RLock()
\*   defer func() { if !unlocked { vmMapMux.RUnlock() } }()
TrampolineRLock(t) ==
  /\ At(t, "rlock")
  /\ CanRLock(vmMapMux)
  /\ vmMapMux' = [vmMapMux EXCEPT !.r = @ \cup {t}]
  /\ Goto(t, [Innermost(t) EXCEPT !.pc = "lookup"])
  /\ UNCHANGED <<registryFixed, vmptr, vmMap, vmhandles, native, slots, undef,
                 crashed, heap, config, bindMap, rh>>

\* The arguments the guest passes to the trampolines here: the text "a",
\* a runtime error, the class "A" of module "main" and its method "f()".
\* The loader called finds the module.
TrampolineResult(fn, v) ==
  LET text == CString(<<97>>)
      load == moduleLoaderFn(config, vmMap, v, Answer(<<97>>, TRUE))
      bind == bindForeignMethodFn(heap, vmMap, bindMap[v], v, "main", "A",
                                  FALSE, "f()")
      none == [NoAccess EXCEPT !.op = "trampoline", !.v = v, !.fn = fn,
                               !.found = v \in vmMap]
  IN CASE fn = "writeFn" ->
            [none EXCEPT !.sent = writeFn(config, vmMap, v, text)]
       [] fn = "errorFn" ->
            [none EXCEPT !.sent = errorFn(config, vmMap, v, "RuntimeError")]
       [] fn = "moduleLoaderFn" ->
            [none EXCEPT !.sent = IF load.called = <<>> THEN <<>>
                                  ELSE Sent(load.called, <<>>, "none"),
                         !.source = load.source]
       [] fn = "bindForeignMethodFn" -> [none EXCEPT !.method = bind.ret]
       [] fn = "bindForeignClassFn" ->
            [none EXCEPT !.class = bindForeignClassFn(heap, vmMap, v, "main", "A")]

\*   if vm, ok := vmMap[v]; ok {
\*     vmMapMux.RUnlock()
\*     unlocked = true
\*     ...
\* With the VM found the trampoline goes on to the VM's Config or binding
\* tables, and from there into the handler, stream or loader configured, if
\* one is; without, it returns, and so does one that calls nothing.
TrampolineLookup(t) ==
  LET f == Innermost(t)
      v == f.v
      r == TrampolineResult(f.fn, v)
      bind == bindForeignMethodFn(heap, vmMap, bindMap[v], v, "main", "A",
                                  FALSE, "f()")
      found == v \in vmMap
      n == 1   \* the RUnlock of the branch taken, or the deferred one
  IN /\ At(t, "lookup")
     /\ vmMapMux' = [vmMapMux EXCEPT !.r = @ \ {t}]
     /\ bindMap' = IF f.fn = "bindForeignMethodFn"
                   THEN [bindMap EXCEPT ![v] = bind.bindMap] ELSE bindMap
     /\ crashed' = (crashed \/ (f.fn = "bindForeignMethodFn" /\ bind.panic)
                            \/ (f.fn = "bindForeignClassFn"
                                  /\ r.class.allocate = "panic"))
     /\ IF found /\ r.sent # <<>>
        THEN /\ Goto(t, [f EXCEPT !.pc = "host", !.unlocked = TRUE, !.n = 1])
             /\ rh' = [r EXCEPT !.t = t, !.host = TRUE, !.n = 1]
        ELSE /\ Leave(t)
             /\ rh' = [r EXCEPT !.t = t, !.n = n]
     /\ UNCHANGED <<registryFixed, vmptr, vmMap, vmhandles, native, slots,
                    undef, heap, config>>

\* Host code returns: to the trampoline that called it, which returns to
\* the guest (its deferred function unlocks unless unlocked is set), or to
\* foreignFinalizerFn and the guest's collector.
HostReturn(t) ==
  LET f == Innermost(t)
      n == IF f.fn \in Trampolines /\ ~f.unlocked THEN f.n + 1 ELSE f.n
  IN /\ At(t, "host")
     /\ vmMapMux' = IF f.fn \in Trampolines /\ ~f.unlocked
                    THEN [vmMapMux EXCEPT !.r = @ \ {t}] ELSE vmMapMux
     /\ Leave(t)
     /\ rh' = [NoAccess EXCEPT !.op = "return", !.t = t, !.v = f.v,
                               !.fn = f.fn, !.n = n]
     /\ UNCHANGED <<registryFixed, vmptr, vmMap, vmhandles, native, slots,
                    undef, crashed, heap, config, bindMap>>

\* Goroutine t waits for vmMapMux, which a frame of its own holds: it waits
\* for ever, and so does every goroutine that asks for the lock after it.
SelfDeadlock(t) ==
  /\ ~crashed
  /\ goroutine[t] # <<>>
  /\ \/ Innermost(t).pc \in {"NewVM.lock", "Free.lock"}
          /\ (vmMapMux.w = t \/ t \in vmMapMux.r)
     \/ Innermost(t).pc = "rlock" /\ vmMapMux.w = t

\* ------------------------------------------------------------------ specifications
NoOp == [op |-> "none", vm |-> 0, released |-> FALSE, err |-> NoErr,
         running |-> FALSE, entered |-> FALSE, abi |-> 0, null |-> FALSE,
         panic |-> FALSE, mut |-> <<>>, key |-> HNil, value |-> HNil,
         calloc |-> 0, cfree |-> 0, ret |-> FALSE]
NoMarshal == [pc |-> "off", vm |-> 0, slot |-> 0, in |-> HNil, err |-> NoErr,
              before |-> GNull, out |-> HNil, prior |-> {}]

\* After NewVM for each VM: registered, no handles, idle.
InitBridge ==
  /\ vmptr = [v \in VMs |-> TRUE]
  /\ vmMap = VMs
  /\ vmhandles = [v \in VMs |-> EmptyRegistry]
  /\ hobj = [h \in HandleIds |-> NoHandle]
  /\ native = [p \in Ptrs |-> NoNative]
  /\ slots = [v \in VMs |-> [s \in Slots |-> GNull]]
  /\ stack = [v \in VMs |-> <<>>]
  /\ undef = [v \in VMs |-> FALSE]
  /\ crashed = FALSE
  /\ rel = [h \in HandleIds |-> 0]
  /\ last = NoOp
  /\ mv = NoMarshal

Init ==
  /\ InitBridge
  /\ heap = Tables(Methods(1, Absent), Methods(Absent, 2), Absent)
  /\ held = 3..12
  /\ bt = NoBind
  /\ InitForeign
  /\ InitDispatch
  /\ InitMethods
  /\ InitRegistry

Results == {"SUCCESS", "COMPILE_ERROR", "RUNTIME_ERROR"}
Lookups == {"ok", "nomodule", "novariable"}

\* Interpreting and calling, with callbacks into the host, on every VM.
Next ==
  \/ \E v \in VMs : InterpretString(v)
  \/ \E v \in VMs : hostCallbackEnter(v)
  \/ \E v \in VMs : hostCallbackReturn(v)
  \/ \E v \in VMs, r \in Results : InterpretReturn(v, r)
  \/ \E v \in VMs, f \in Lookups, gv \in {GNull, GObj("UNKNOWN", 4)} :
       GetVariable(v, f, gv)
  \/ \E h \in HandleIds : HandleFunc(h)
  \/ \E h \in HandleIds, ps \in ParamLists({HInt(FALSE, <<1>>)}) :
       CallHandleCall(h, ps)
  \/ \E v \in VMs, r \in Results, gv \in {GNull, GObj("UNKNOWN", 4)} :
       CallReturn(v, r, gv)
  \/ Crash

Spec == Init /\ [][Next]_vars

\* The VM whose handles the container operations are tried on; the other VM
\* stays as NewVM left it.
OpsVMs == {1}
\* What the guest hands back from a container or a call.
ReadVals == {GNull, GObj("LIST", 1)}

\* The operations on handles, from a host that is not inside a callback.
NextOps ==
  \/ \E v \in OpsVMs, f \in Lookups, gv \in GuestVals : GetVariable(v, f, gv)
  \/ \E h \in HandleIds : HandleFunc(h)
  \/ \E h \in HandleIds, ps \in ParamLists(HandleArgs) : CallHandleCall(h, ps)
  \/ \E v \in OpsVMs, r \in Results, gv \in ReadVals : CallReturn(v, r, gv)
  \/ \E h \in HandleIds, key \in Keys, gv \in ReadVals :
       \/ MapHandleOp(h, "Get", key, HNil, TRUE, gv)
       \/ MapHandleOp(h, "Delete", key, HNil, TRUE, gv)
  \/ \E h \in HandleIds, key \in Keys :
       \/ MapHandleOp(h, "Get", key, HNil, FALSE, GNull)
       \/ MapHandleOp(h, "Has", key, HNil, TRUE, GNull)
  \/ \E h \in HandleIds, key \in Keys, value \in HandleArgs :
       MapHandleOp(h, "Set", key, value, TRUE, GNull)
  \/ \E h \in HandleIds, op \in {"Count", "Copy"} :
       \/ MapHandleOp(h, op, HNil, HNil, TRUE, GNull)
       \/ ListHandleOp(h, op, 0, HNil, 0, GNull)
  \/ \E h \in HandleIds, index \in {-1, 0, 1}, count \in {0, 2} :
       ListHandleOp(h, "Get", index, HNil, count, GNull)
  \/ \E h \in HandleIds, index \in {0, 1}, gv \in ReadVals :
       ListHandleOp(h, "Get", index, HNil, 2, gv)
  \/ \E h \in HandleIds, index \in ListIndexes, n \in ListCounts,
        answer \in StrayCounts, gv \in ReadVals :
       ListHandleGetAt(h, index, n, answer, gv)
  \/ \E h \in HandleIds, op \in {"Insert", "InsertAt", "Set"}, value \in HandleArgs :
       ListHandleOp(h, op, 0, value, 0, GNull)
  \/ \E h \in HandleIds, op \in ForeignOps, known \in BOOLEAN :
       ForeignHandleOp(h, op, known)
  \/ \E h \in HandleIds : Free(h)
  \/ \E v \in OpsVMs, hs \in SUBSET HandleIds : FreeAll(v, hs)
  \/ \E v \in OpsVMs : VMFreeCall(v)
  \/ Crash

SpecOps == Init /\ [][NextOps]_vars

\* Values marshaled into a slot of one VM and read back; the handles among
\* them belong to either VM.
NextMarshal ==
  \/ \E v \in VMs, gv \in {GObj("MAP", 2)} : GetVariable(v, "ok", gv)
  \/ \E v \in OpsVMs, value \in Primitives \cup HostArgs : Write(v, value, 1)
  \/ Read

SpecMarshal == Init /\ [][NextMarshal]_vars

\* The tables the host starts from: m1 with one or two methods; m2 disjoint
\* from m1 or sharing a key with it, with a nil function or without; class
\* "B" of the second class map missing, nil, the very class the first map
\* holds as "A" or the class the second map itself holds as "A".
InitTables(M1, M2, B) ==
  /\ InitBridge
  /\ \E m1 \in M1, m2 \in M2, b \in B : heap = Tables(m1, m2, b)
  /\ held = 3..12
  /\ bt = NoBind
  /\ InitForeign
  /\ InitDispatch
  /\ InitMethods
  /\ InitRegistry

AnyKey == Range(ModNames) \cup Range(ClassNames) \cup Range(Sigs)

\* Cloning tables at every level and changing the clone or the original.
NextClone ==
  \/ \E x \in Known : Clone(x)
  \/ \E x \in Known, key \in AnyKey, fresh \in BOOLEAN : HostStore(x, key, fresh)

SpecClone ==
  InitTables({Methods(1, Absent)}, {Methods(Absent, 2)}, {Absent, Nil, 5})
    /\ [][NextClone]_vars

\* Merging tables at every level, into clones of method maps, into the
\* host's tables and into a VM's.
NextMerge ==
  \/ \E x \in Held("MethodMap") : Clone(x)
  \/ \E recv \in Known, source \in Known, ord \in Orders : Merge(recv, source, ord)
  \/ \E v \in OpsVMs, name \in Range(ModNames), module \in Held("Module") :
       SetModuleCall(v, name, module)
  \/ \E v \in OpsVMs, source \in Held("ModuleMap"), ord \in Orders :
       VMMergeCall(v, source, ord)

SpecMerge ==
  InitTables({Methods(1, Absent), Methods(1, 1)},
             {Methods(Absent, 2), Methods(Absent, Nil), Methods(2, Absent),
              Methods(Nil, 2)},
             {Absent, Nil, 5, 6})
    /\ [][NextMerge]_vars

\* Attaching tables to a VM and changing the host's tables afterwards.
NextAttach ==
  \/ \E classes \in Held("ClassMap") : NewModuleCall(classes)
  \/ \E v \in OpsVMs, name \in Range(ModNames), module \in Held("Module") \cup {Nil} :
       SetModuleCall(v, name, module)
  \/ \E v \in OpsVMs, source \in Held("ModuleMap"), ord \in Orders :
       VMMergeCall(v, source, ord)
  \/ \E recv \in Held("MethodMap"), source \in Held("MethodMap") :
       Merge(recv, source, "fwd")
  \/ \E x \in Known, key \in AnyKey, fresh \in BOOLEAN : HostStore(x, key, fresh)
  \/ \E x \in Known, field \in {"init", "fin", "ref"} : HostSet(x, field)

SpecAttach ==
  InitTables({Methods(1, Absent)}, {Methods(2, 2)}, {Absent})
    /\ [][NextAttach]_vars

\* What a lookup in the table can come back with.
Instances == {foreignMap[a] : a \in Addrs} \cup {NoInstance}

\* Foreign objects constructed, read through handles and finalized on two
\* VMs, each run by a thread of its own.
NextForeign ==
  \/ \E t \in Threads, class \in Range(ClassNames), fails \in BOOLEAN, a \in Addrs :
       ConstructBegin(t, class, fails, a)
  \/ \E t \in Threads : ConstructLock(t)
  \/ \E t \in Threads : ConstructInsert(t)
  \/ \E t \in Threads, a \in Addrs : RandomNew(t, a)
  \/ \E t \in Threads, a \in Addrs : FinalizeBegin(t, a)
  \/ \E t \in Threads, inst \in Instances : FinalizeLookup(t, inst)
  \/ \E t \in Threads, outcome \in {"done", "fatal", "torn"} :
       FinalizeDelete(t, outcome)
  \/ \E t \in Threads, a \in Addrs : GetBegin(t, a)
  \/ \E t \in Threads, inst \in Instances : GetEnd(t, inst)

\* After NewVM and SetModule for each VM.
InitAttached ==
  /\ InitBridge
  /\ heap = Attached
  /\ held = 3..12
  /\ bt = NoBind
  /\ InitForeign
  /\ InitDispatch
  /\ InitMethods
  /\ InitRegistry

SpecForeign == InitAttached /\ [][NextForeign]_vars

\* The settings a host can give a VM and the package: every field of the
\* VM's Config set or nil, no Config at all, each package default set or
\* nil.  The other VM keeps what NewVM gave it.
Settings == {Nil, 1}
Configs ==
  {[vm |-> [v \in VMs |-> IF v \in OpsVMs THEN c ELSE InitialConfig.vm[v]],
    DefaultOutput |-> do, DefaultError |-> de, DefaultModuleLoader |-> dl] :
     c \in {ConfigOf(w, o, e, d, l) : w \in Settings, o \in Settings,
                                      e \in Settings, d \in Settings,
                                      l \in Settings} \cup {NilConfig},
     do \in Settings, de \in Settings, dl \in Settings}

\* C strings the guest passes: the bytes and the NUL that ends them.
CStrings == {CString(str) : str \in UNION {[1..n -> Bytes \ {0}] : n \in 0..MaxLen}}

\* After NewVM and SetModule for each VM, with any settings.
InitDispatched ==
  /\ InitBridge
  /\ heap = Attached
  /\ held = 3..12
  /\ bt = NoBind
  /\ InitForeign
  /\ config \in Configs
  /\ cb = NoCallback
  /\ InitMethods
  /\ InitRegistry

\* The callbacks the guest makes into the host.
NextDispatch ==
  \/ \E v \in OpsVMs, text \in CStrings : WriteCallback(v, text)
  \/ \E v \in OpsVMs, errorType \in ErrorTypes : ErrorCallback(v, errorType)
  \/ \E v \in OpsVMs, source \in Strings, ok \in BOOLEAN :
       LoadModuleCallback(v, Answer(source, ok))

SpecDispatch == InitDispatched /\ [][NextDispatch]_vars

\* A method map with an instance method "f()" and a static method "f()".
StaticMethods(f, s) == [NoEntries(Sigs) EXCEPT !["f()"] = f, !["static f()"] = s]

\* The tables of the host with module 9 (class "A" with the methods m1)
\* attached to VM 1 as "main" and module 10 (class "A" with the methods m2)
\* to VM 2.
AttachedWith(m1, m2) ==
  LET hp == Tables(m1, m2, Absent) IN
  Collect(SetModule(SetModule(hp, 1, "main", 9).hp, 2, "main", 10).hp, 1..12)

\* After NewVM and SetModule for each VM: class "A" of VM 1 with "f()"
\* missing, nil or a function and "static f()" missing or another function;
\* class "A" of VM 2 with functions of its own under the same keys.
InitMethodTables ==
  /\ InitBridge
  /\ \E f \in {Absent, Nil, 1}, s \in {Absent, 2} :
       heap = AttachedWith(StaticMethods(f, s), StaticMethods(2, 3))
  /\ held = 3..12
  /\ bt = NoBind
  /\ InitForeign
  /\ InitDispatch
  /\ InitMethods
  /\ InitRegistry

\* What a host function returns to its forwarding function.
HostErrors == {NilError} \cup {ErrorOf(msg) : msg \in Strings}

\* Foreign methods bound on two VMs; foreign methods called and foreign
\* classes without a constructor constructed on one of them.
NextMethods ==
  \/ \E v \in VMs : InterpretString(v)
  \/ \E v \in VMs : InterpretReturn(v, "SUCCESS")
  \/ \E v \in VMs, cModule \in {"main", "random"}, cClassName \in Range(ClassNames),
        cIsStatic \in BOOLEAN, cSignature \in {"f()"} :
       BindMethodCallback(v, cModule, cClassName, cIsStatic, cSignature)
  \/ \E v \in OpsVMs, i \in 1..MaxBindings, out \in {HStr(<<97>>)},
        err \in HostErrors :
       ForeignMethodCall(v, i, out, err)
  \/ \E v \in OpsVMs, cModule \in {"main", "random"}, cClassName \in Range(ClassNames) :
       ConstructInvalid(v, cModule, cClassName)
  \/ \E v \in VMs : FiberTry(v)
  \/ \E v \in VMs : AbortedReturn(v)

SpecMethods == InitMethodTables /\ [][NextMethods]_vars


\* The keys and values tried on maps and lists: nil, a number, a string, a
\* value of an unsupported type and every handle created so far, of either
\* VM.
KeysTried == {HNil, HInt(FALSE, <<1>>), HStr(<<97>>), HOther(1)} \cup HandleArgs
ValuesTried == {HInt(FALSE, <<1>>), HOther(1)} \cup HandleArgs

\* Handles to a map and a list fetched on both VMs, and the operations of
\* MapHandle and ListHandle that take a key or a value.
NextContainers ==
  \/ \E v \in VMs, gv \in {GObj("LIST", 1), GObj("MAP", 2)} : GetVariable(v, "ok", gv)
  \/ \E h \in HandleIds, key \in KeysTried :
       \/ MapHandleOp(h, "Get", key, HNil, TRUE, GNull)
       \/ MapHandleOp(h, "Get", key, HNil, FALSE, GNull)
       \/ MapHandleOp(h, "Delete", key, HNil, TRUE, GNull)
       \/ MapHandleOp(h, "Has", key, HNil, TRUE, GNull)
  \/ \E h \in HandleIds, key \in KeysTried, value \in ValuesTried :
       MapHandleOp(h, "Set", key, value, TRUE, GNull)
  \/ \E h \in HandleIds, op \in {"Insert", "InsertAt", "Set"}, index \in {0, 1},
        value \in ValuesTried :
       ListHandleOp(h, op, index, value, 0, GNull)

SpecContainers == Init /\ [][NextContainers]_vars

\* The values passed to Call here: a string, a byte slice, a number, a value
\* of an unsupported type and the handles.
FacadeArgs ==
  {HStr(<<97>>), HBytes(<<97>>), HInt(FALSE, <<1>>), HOther(1)} \cup HandleArgs

\* The parameter lists passed to Call here: those, and two whose second
\* value is the one that cannot be marshaled.
FacadeParams ==
  ParamLists(FacadeArgs)
    \cup {<<HInt(FALSE, <<1>>), HOther(1)>>, <<HBytes(<<97>>), HOther(1)>>}

\* The functions of the VM called before and after VM.Free, on one VM.
NextFacade ==
  \/ \E v \in OpsVMs : InterpretString(v)
  \/ \E v \in OpsVMs, r \in Results : InterpretReturn(v, r)
  \/ \E v \in OpsVMs, readable \in BOOLEAN : InterpretFile(v, readable)
  \/ \E v \in OpsVMs, f \in Lookups, gv \in GuestVals : GetVariable(v, f, gv)
  \/ \E v \in OpsVMs, f \in Lookups : HasVariable(v, f)
  \/ \E v \in OpsVMs, f \in Lookups : HasModule(v, f)
  \/ \E v \in OpsVMs, t \in {"MAP", "LIST"} : NewContainer(v, t)
  \/ \E v \in OpsVMs : GC(v)
  \/ \E h \in HandleIds : HandleFunc(h)
  \/ \E h \in HandleIds, ps \in FacadeParams : CallHandleCall(h, ps)
  \/ \E v \in OpsVMs, r \in Results, gv \in ReadVals : CallReturn(v, r, gv)
  \/ \E v \in OpsVMs : VMFreeCall(v)

SpecFacade == Init /\ [][NextFacade]_vars

\* The settings the registry is exercised with: what NewVM and the package
\* give, a handler for everything on each VM, and nothing anywhere.
RegistryConfigs ==
  {InitialConfig,
   [InitialConfig EXCEPT !.vm = [v \in VMs |-> ConfigOf(1, Nil, 1, Nil, 1)]],
   [vm |-> InitialConfig.vm, DefaultOutput |-> Nil, DefaultError |-> Nil,
    DefaultModuleLoader |-> Nil]}

\* After NewVM and SetModule for each VM, with those settings.
InitRegistered ==
  /\ InitBridge
  /\ heap = Attached
  /\ held = 3..12
  /\ bt = NoBind
  /\ InitForeign
  /\ config \in RegistryConfigs
  /\ cb = NoCallback
  /\ InitMethods
  /\ InitRegistry

\* VMs created, run and freed by two goroutines, from the goroutines' own
\* code and from host code the guest calls back.
NextRegistry ==
  \/ \E t \in Threads, v \in VMs : NewVMCall(t, v)
  \/ \E t \in Threads : NewVMLock(t)
  \/ \E t \in Threads : NewVMInsert(t)
  \/ \E t \in Threads, v \in VMs : FreeCall(t, v)
  \/ \E t \in Threads : FreeLock(t)
  \/ \E t \in Threads, fin \in {0, 1} : FreeDelete(t, fin)
  \/ \E t \in Threads : FinalizerCall(t)
  \/ \E t \in Threads : FreeReturn(t)
  \/ \E t \in Threads, v \in VMs : InterpretCall(t, v)
  \/ \E t \in Threads : InterpretDone(t)
  \/ \E t \in Threads, fn \in Trampolines : TrampolineCall(t, fn)
  \/ \E t \in Threads : TrampolineRLock(t)
  \/ \E t \in Threads : TrampolineLookup(t)
  \/ \E t \in Threads : HostReturn(t)

SpecRegistry == InitRegistered /\ [][NextRegistry]_vars

\* ------------------------------------------------------------------ properties
\* C1: an InterpretString or Call invoked on a VM that is Running returns
\* RunningVMError and does not enter the guest interpreter.
C1_ReentryRejected ==
  (last.op \in {"InterpretString", "Call"} /\ last.running)
    => (last.err.k = "RunningVMError" /\ ~last.entered)

\* An InterpretString was invoked on a Running VM and entered the guest.
C1_Reentered ==
  last.op = "InterpretString" /\ last.running /\ last.entered

\* C2: when the outermost InterpretString or Call on a VM has returned, the
\* VM is Idle again in a state from which a later InterpretString or Call is
\* accepted: nothing runs on it, the guest's state is defined and the process
\* is alive.
C2_IdleAfterReturn ==
  \A v \in VMs :
    (last.vm = v /\ last.op \in {"InterpretString.return", "Call.return"}
       /\ stack[v] = <<>>)
      => (~undef[v] /\ ~crashed)

\* A step in which an InterpretString or a Call is invoked on a Running VM.
ReentrantAttempt ==
  \E v \in VMs :
    /\ Running(v)
    /\ \/ InterpretString(v)
       \/ \E h \in HandleIds, ps \in ParamLists({HInt(FALSE, <<1>>)}) :
            hobj[h].vm = v /\ CallHandleCall(h, ps)

\* C3: a re-entrant InterpretString or Call changes nothing: no guest call is
\* issued, no slot written, no handle created or released, and what runs on
\* the VM is as before.
C3_ReentryChangesNothing ==
  [][ReentrantAttempt
       => UNCHANGED <<slots, stack, hobj, native, vmhandles, rel, undef>>]_vars

\* C4: every operation other than Free on a released handle, of any variant,
\* returns NilHandleError without a single call into the guest.
C4_ReleasedHandleOp ==
  (last.released /\ last.op # "Free")
    => (last.err.k = "NilHandleError" /\ last.abi = 0 /\ ~last.entered)

\* An InsertAt on a released ListHandle was refused.
C4_ReleasedListInsertAt ==
  /\ last.released
  /\ last.op = "ListHandle.InsertAt"
  /\ last.err.k = "NilHandleError"

\* C5: the native handle behind a *Handle is released at most once, whatever
\* mix of Free, FreeAll and VM.Free is applied to it, and Free on a released
\* handle makes no guest call, returns no error and does not panic.
C5_FreeOnce ==
  /\ \A h \in HandleIds : rel[h] <= 1
  /\ (last.op = "Free" /\ last.released)
       => (last.abi = 0 /\ last.err = NoErr /\ ~last.panic)

\* Free was called on a handle released before, by VM.Free.
C5_FreedTwice ==
  /\ last.op = "Free"
  /\ last.released
  /\ ~vmptr[last.vm]
  /\ \E h \in HandleIds : rel[h] = 1

\* C6: the handle registry of a live VM holds unreleased handles only.
C6_RegistryOnlyLive ==
  \A v \in VMs :
    ~vmhandles[v].nil
      => \A p \in Ptrs :
           vmhandles[v].m[p] # 0 => hobj[vmhandles[v].m[p]].handle # 0

\* C7: no operation hands the guest the native pointer of a released handle
\* (NULL, once released).
C7_NoReleasedPointer == ~last.null

\* The values of the host, for comparing what was written with what was read:
\* a number by its canonical form, a string or byte sequence by its bytes.
ValueOf(x) ==
  CASE x.t \in {"int", "uint", "float"} ->
         LET c == Canon(x.neg, x.s, x.e) IN
         [k |-> "number", v |-> <<IF c.neg THEN 1 ELSE 0, c.e>> \o c.s]
    [] x.t \in {"string", "bytes"} -> [k |-> "bytes", v |-> x.s]
    [] OTHER -> [k |-> x.t, v |-> x.s]

\* A double holds the number exactly.
Exact(x) == Len(Canon(x.neg, x.s, x.e).s) <= Mant

\* C8: marshaling a handle into a slot of a VM other than its own returns
\* NonMatchingVM and leaves the slot as it was.
C8_NonMatchingVM ==
  (mv.pc # "off" /\ mv.in.t \in HandleVariants /\ hobj[mv.in.s[1]].vm # mv.vm)
    => (mv.err.k = "NonMatchingVM" /\ slots[mv.vm][mv.slot] = mv.before)

\* A handle of the other VM was refused for a slot that held a number.
C8_ForeignHandleRefused ==
  /\ mv.pc = "written"
  /\ mv.in.t = "MapHandle"
  /\ hobj[mv.in.s[1]].vm # mv.vm
  /\ mv.before.t = "NUM"
  /\ mv.err.k = "NonMatchingVM"

\* C9: marshaling a value of an unsupported type returns InvalidValue
\* carrying that value and leaves guest null in the slot.
C9_InvalidValue ==
  (mv.pc # "off" /\ mv.in.t = "other")
    => (mv.err = Err("InvalidValue", mv.in) /\ slots[mv.vm][mv.slot] = GNull)

\* A value of an unsupported type was marshaled into a slot that held a string.
C9_UnsupportedOverString ==
  /\ mv.pc = "written"
  /\ mv.in.t = "other"
  /\ mv.before.t = "STRING"
  /\ mv.err.k = "InvalidValue"

\* C10 as stated: every supported primitive value reads back equal to what
\* was written.
C10_RoundTrip ==
  (mv.pc = "read" /\ mv.in \in Primitives) => ValueOf(mv.out) = ValueOf(mv.in)

\* C10: a boolean, nil, a string or byte sequence (NUL and non-ASCII bytes
\* included) and a number a double holds exactly read back equal to what was
\* written; any other integer reads back as the double nearest to it.
C10_RoundTripExact ==
  (mv.pc = "read" /\ mv.in \in Primitives)
    => ValueOf(mv.out) =
         (IF mv.in.t \in {"int", "uint"} /\ ~Exact(mv.in)
          THEN ValueOf(HInt(mv.in.neg, RoundMant(mv.in.s)))
          ELSE ValueOf(mv.in))

\* 2^53 + 1 was written and 2^53 read back.
C10_RoundedInteger ==
  /\ mv.pc = "read"
  /\ mv.in = HInt(FALSE, Pow53Plus1)
  /\ ValueOf(mv.out) = ValueOf(HInt(FALSE, Pow53))

\* C11: a read of a slot that holds a list, a map, a foreign object or a
\* value of unknown type returns a wrapper of the matching kind around a
\* *Handle object that did not exist before the read, owned by the reading
\* VM and entered in that VM's registry under its native pointer.
C11_FreshRegisteredHandle ==
  (mv.pc = "read" /\ NeedsHandle(slots[mv.vm][mv.slot]))
    => LET h == mv.out.s[1] IN
       /\ mv.out.t = WrapperOf(slots[mv.vm][mv.slot].t)
       /\ h \notin mv.prior
       /\ hobj[h].vm = mv.vm
       /\ hobj[h].handle # 0
       /\ ~vmhandles[mv.vm].nil
       /\ vmhandles[mv.vm].m[hobj[h].handle] = h

\* A map was written into a slot through one handle and read back as a
\* second handle on the same guest object.
C11_SecondHandleSameObject ==
  /\ mv.pc = "read"
  /\ mv.in.t = "MapHandle"
  /\ mv.out.t = "MapHandle"
  /\ mv.out.s[1] # mv.in.s[1]
  /\ hobj[mv.in.s[1]].vm = mv.vm
  /\ native[hobj[mv.out.s[1]].handle].val = native[hobj[mv.in.s[1]].handle].val

\* What a table is worth, whatever objects hold it: an object with every
\* reference in it replaced by the worth of what it refers to.
RECURSIVE DeepVal(_, _)
DeepVal(hp, x) ==
  IF x = Absent THEN [FreeObj EXCEPT !.k = "absent"]
  ELSE IF x = Nil THEN [FreeObj EXCEPT !.k = "nil"]
  ELSE IF hp[x].k \in {"ForeignClass", "Module"}
  THEN [k |-> hp[x].k, m |-> <<>>, init |-> hp[x].init, fin |-> hp[x].fin,
        ref |-> DeepVal(hp, hp[x].ref)]
  ELSE IF hp[x].k \in {"ClassMap", "ModuleMap"}
  THEN [k |-> hp[x].k, m |-> [key \in DOMAIN hp[x].m |-> DeepVal(hp, hp[x].m[key])],
        init |-> Nil, fin |-> Nil, ref |-> Nil]
  ELSE hp[x]

\* C12: Clone is deep at every level.  From a Clone on, a change host code
\* makes to a map of the clone (an entry added, replaced or removed, at any
\* depth) leaves the original worth what it was, and a change to a map of the
\* original leaves the clone worth what it was.
C12_CloneIsDeep ==
  [][(bt'.op = "HostStore" /\ bt.copy # Nil)
       => /\ bt'.recv \in Reach(heap, {bt.copy})
               => DeepVal(heap', bt.orig) = DeepVal(heap, bt.orig)
          /\ bt'.recv \in Reach(heap, {bt.orig})
               => DeepVal(heap', bt.copy) = DeepVal(heap, bt.copy)]_vars

\* A ModuleMap was cloned and a method map deep inside the clone was changed
\* since: the clone and the original differ.
C12_CloneChangedAlone ==
  /\ bt.op = "HostStore"
  /\ bt.copy # Nil
  /\ heap[bt.orig].k = "ModuleMap"
  /\ heap[bt.recv].k = "MethodMap"
  /\ bt.recv \in Reach(heap, {bt.copy})
  /\ DeepVal(heap, bt.copy) # DeepVal(heap, bt.orig)

\* The keys of a method map, and those that hold a function.
KeysOf(mm) == {s \in Range(Sigs) : heap[mm].m[s] # Absent}
FnKeysOf(mm) == {s \in Range(Sigs) : heap[mm].m[s] \notin {Absent, Nil}}

\* The state after m1.Clone().Merge(m2): m1 is bt.orig, the clone bt.recv and
\* m2 bt.src, a map other than the clone.
CloneMerged ==
  /\ bt.op = "Merge"
  /\ ~bt.panic
  /\ bt.chain
  /\ bt.recv = bt.copy
  /\ bt.src # bt.recv
  /\ heap[bt.recv].k = "MethodMap"

\* C13 as stated: with disjoint keys, m1.Clone().Merge(m2) has the union of
\* the two key sets, each key with the function of the map it comes from.
C13_UnionOfKeys ==
  (CloneMerged /\ KeysOf(bt.orig) \cap KeysOf(bt.src) = {})
    => /\ KeysOf(bt.recv) = KeysOf(bt.orig) \cup KeysOf(bt.src)
       /\ \A s \in KeysOf(bt.orig) : heap[bt.recv].m[s] = heap[bt.orig].m[s]
       /\ \A s \in KeysOf(bt.src) : heap[bt.recv].m[s] = heap[bt.src].m[s]

\* C13: with disjoint keys, m1.Clone().Merge(m2) has the keys of m1 and those
\* keys of m2 that hold a function (not nil), each with the function of the
\* map it comes from; m1 and m2 are as before.
C13_UnionOfFnKeys ==
  (CloneMerged /\ KeysOf(bt.orig) \cap KeysOf(bt.src) = {})
    => /\ KeysOf(bt.recv) = KeysOf(bt.orig) \cup FnKeysOf(bt.src)
       /\ \A s \in KeysOf(bt.orig) : heap[bt.recv].m[s] = heap[bt.orig].m[s]
       /\ \A s \in FnKeysOf(bt.src) : heap[bt.recv].m[s] = heap[bt.src].m[s]

\* m1 = {"f()": fn} was cloned and merged with m2 = {"g()": nil}: the result
\* has no key "g()".
C13_NilFnLeftOut ==
  /\ CloneMerged
  /\ KeysOf(bt.orig) = {"f()"}
  /\ KeysOf(bt.src) = {"g()"}
  /\ heap[bt.src].m["g()"] = Nil
  /\ KeysOf(bt.recv) = {"f()"}

\* C14 as stated: m1.Clone().Merge(m2) maps every key the two maps share to
\* m2's function and every other key of m1 to m1's function.
C14_SharedKeyFromSource ==
  CloneMerged
    => /\ \A s \in KeysOf(bt.orig) \cap KeysOf(bt.src) :
            heap[bt.recv].m[s] = heap[bt.src].m[s]
       /\ \A s \in KeysOf(bt.orig) \ KeysOf(bt.src) :
            heap[bt.recv].m[s] = heap[bt.orig].m[s]

\* C14: m1.Clone().Merge(m2) maps a key the two maps share to m2's function
\* when that function is not nil and to m1's function when it is nil, and
\* every other key of m1 to m1's function.
C14_SharedKeyFromSourceFn ==
  CloneMerged
    => /\ \A s \in KeysOf(bt.orig) \cap KeysOf(bt.src) :
            heap[bt.recv].m[s] =
              (IF heap[bt.src].m[s] # Nil THEN heap[bt.src].m[s]
               ELSE heap[bt.orig].m[s])
       /\ \A s \in KeysOf(bt.orig) \ KeysOf(bt.src) :
            heap[bt.recv].m[s] = heap[bt.orig].m[s]

\* m1 with "f()" and "g()" was cloned and merged with m2 = {"f()": another
\* function}: "f()" has m2's function and "g()" still m1's.
C14_SharedKeyReplaced ==
  /\ CloneMerged
  /\ KeysOf(bt.orig) = {"f()", "g()"}
  /\ KeysOf(bt.src) = {"f()"}
  /\ heap[bt.src].m["f()"] \notin {Nil, heap[bt.orig].m["f()"]}
  /\ heap[bt.recv].m["f()"] = heap[bt.src].m["f()"]
  /\ heap[bt.recv].m["g()"] = heap[bt.orig].m["g()"]


\* Every function the method map source holds is what methods holds under
\* the same signature.
MethodsCover(hp, methods, source) ==
  \A s \in Range(Sigs) :
    Entry(hp, source, s) \notin {Absent, Nil}
      => Entry(hp, methods, s) = Entry(hp, source, s)

\* Every class of the class map source is a class of classes, with every
\* method of it.
ClassesCover(hp, classes, source) ==
  \A name \in Range(ClassNames) :
    LET class == Entry(hp, source, name)
        mine == Entry(hp, classes, name)
    IN class \notin {Absent, Nil}
         => /\ mine \notin {Absent, Nil}
            /\ MethodsCover(hp, hp[mine].ref, hp[class].ref)

\* Every module of the module map source is a module of modules, with every
\* class and method of it.
ModulesCover(hp, modules, source) ==
  \A name \in Range(ModNames) :
    LET module == Entry(hp, source, name)
        mine == Entry(hp, modules, name)
    IN module \notin {Absent, Nil}
         => /\ mine \notin {Absent, Nil}
            /\ ClassesCover(hp, hp[mine].ref, hp[module].ref)

\* C15: ModuleMap.Merge, ClassMap.Merge and VM.Merge complete for every
\* receiver and source, and afterwards every non-nil module, class and method
\* of the source is in the receiver at the same module -> class -> method
\* path, modules and classes the receiver did not have before included.
C15_MergeCompletesAndCovers ==
  (bt.op \in {"Merge", "VM.Merge"} /\ heap[bt.recv].k \in {"ClassMap", "ModuleMap"})
    => /\ ~bt.panic
       /\ heap[bt.recv].k = "ClassMap" => ClassesCover(heap, bt.recv, bt.src)
       /\ heap[bt.recv].k = "ModuleMap" => ModulesCover(heap, bt.recv, bt.src)

\* What does hold of them: a merge that completes leaves every non-nil
\* module, class and method of the source in the receiver, and it completes
\* whenever the receiver has a non-nil entry for each module and class the
\* source has one for.
C15_CoversWhenComplete ==
  (bt.op \in {"Merge", "VM.Merge"} /\ heap[bt.recv].k \in {"ClassMap", "ModuleMap"}
     /\ ~bt.panic)
    => /\ heap[bt.recv].k = "ClassMap" => ClassesCover(heap, bt.recv, bt.src)
       /\ heap[bt.recv].k = "ModuleMap" => ModulesCover(heap, bt.recv, bt.src)

\* vm.Merge of a module the VM has no entry for has panicked.
C15_MergeIntoEmptyPanics ==
  /\ bt.op = "VM.Merge" /\ bt.panic
  /\ Entry(heap, bt.recv, "main") = Absent
  /\ Entry(heap, bt.src, "main") \notin {Absent, Nil}


\* The references held in the tables under root: <<holder, slot, object>>.
RefsUnder(hp, root) ==
  UNION {IF hp[p].k \in {"ForeignClass", "Module"}
         THEN {<<p, "ref", hp[p].ref>>} \ {<<p, "ref", Nil>>}
         ELSE IF hp[p].k \in {"ClassMap", "ModuleMap"}
         THEN {<<p, key, hp[p].m[key]>> : key \in DOMAIN hp[p].m}
                \ {<<p, key, x>> : key \in DOMAIN hp[p].m, x \in {Absent, Nil}}
         ELSE {} : p \in Reach(hp, {root})}

\* No object under root is held twice, and none is held by source as well.
Unshared(hp, root, source) ==
  /\ \A e1, e2 \in RefsUnder(hp, root) : e1[3] = e2[3] => e1 = e2
  /\ Reach(hp, {root}) \cap Reach(hp, {source}) = {}

\* A merge took the receiver from the worth before to the worth after, with
\* a source worth src: nothing the receiver had is gone, and what the source
\* lacks or holds as nil is in the receiver as it was.
RECURSIVE Framed(_, _, _)
Framed(before, after, src) ==
  IF src.k \in {"absent", "nil"} THEN after = before
  ELSE IF before.k \in {"absent", "nil"} THEN TRUE
  ELSE /\ after.k = before.k
       /\ CASE before.k = "MethodMap" ->
                 \A s \in DOMAIN before.m :
                   /\ before.m[s] # Absent => after.m[s] # Absent
                   /\ src.m[s] \in {Absent, Nil} => after.m[s] = before.m[s]
            [] before.k \in {"ClassMap", "ModuleMap"} ->
                 \A key \in DOMAIN before.m :
                   /\ before.m[key].k # "absent" => after.m[key].k # "absent"
                   /\ Framed(before.m[key], after.m[key], src.m[key])
            [] OTHER -> Framed(before.ref, after.ref, src.ref)

\* The step is recv.Merge(src) or vm.Merge(src).
MergeStep == bt'.n = bt.n + 1 /\ bt'.op \in {"Merge", "VM.Merge"}

\* C16: Merge at every level never deletes a receiver entry, never changes a
\* receiver entry whose key path is absent from the source, skips source
\* entries that are nil, and never modifies the source.
C16_MergeFrame ==
  [][MergeStep
       => /\ Framed(DeepVal(heap, bt'.recv), DeepVal(heap', bt'.recv),
                    DeepVal(heap, bt'.src))
          /\ DeepVal(heap', bt'.src) = DeepVal(heap, bt'.src)]_vars

\* The same of a merge whose receiver holds no object twice and shares none
\* with the source, whether the merge completes or panics on the way.
C16_MergeFrameUnshared ==
  [][(MergeStep /\ Unshared(heap, bt'.recv, bt'.src))
       => /\ Framed(DeepVal(heap, bt'.recv), DeepVal(heap', bt'.recv),
                    DeepVal(heap, bt'.src))
          /\ DeepVal(heap', bt'.src) = DeepVal(heap, bt'.src)]_vars

\* A class map was merged into another that shares nothing with it: class
\* "A" of the receiver took a method of the source and keeps one the source
\* does not have.
C16_MergedAndKept ==
  /\ bt.op = "Merge" /\ ~bt.panic /\ bt.changed
  /\ heap[bt.recv].k = "ClassMap"
  /\ Unshared(heap, bt.recv, bt.src)
  /\ \E s, t \in Range(Sigs) :
       LET mine == heap[heap[bt.recv].m["A"]].ref
           theirs == heap[heap[bt.src].m["A"]].ref
       IN /\ heap[theirs].m[s] \notin {Absent, Nil}
          /\ heap[mine].m[s] = heap[theirs].m[s]
          /\ heap[theirs].m[t] \in {Absent, Nil}
          /\ heap[mine].m[t] \notin {Absent, Nil}


\* What the bind-foreign-method and bind-foreign-class lookups of every VM
\* resolve, for every module, class and signature.
Bindings(hp) ==
  [v \in VMs |->
     [module \in Range(ModNames) |->
        [class \in Range(ClassNames) |->
           <<BoundClass(hp, v, module, class),
             [key \in Range(Sigs) |-> BoundMethod(hp, v, module, class, key)]>>]]]

\* C17: attaching a table to a VM (SetModule, VM.Merge) stores an independent
\* copy: no change host code makes afterwards to a Module, ClassMap or
\* MethodMap it holds (a store, a delete, a merge, a field assignment)
\* changes what a VM's foreign-method and foreign-class lookups resolve.
C17_AttachedIsIndependent ==
  [][(bt'.n = bt.n + 1 /\ bt'.op \in {"HostStore", "HostSet", "Merge"})
       => Bindings(heap') = Bindings(heap)]_vars

\* A module made from the host's class "A" is attached to VM 1 and host code
\* has since replaced or removed "f()" in the method map of that class: the
\* VM still resolves "f()" to the function attached.
C17_OriginalChangedAfterAttach ==
  /\ bt.op = "HostStore" /\ bt.recv = 3
  /\ heap[3].m["f()"] # 1
  /\ BoundMethod(heap, 1, "main", "A", "f()") = 1
  /\ BoundClass(heap, 1, "main", "A") = <<1, 1>>


\* C18: for every foreign object allocated through a registered class, the
\* finalize callback for its address removes its table entry exactly once
\* and invokes the class's host finalizer (when one is set) exactly once,
\* with the payload and VM recorded at construction; a finalize for an
\* address that has no entry does nothing.
C18_FinalizedOnce ==
  fh.op = "finalize"
    => /\ ~crashed
       /\ fh.gone
       /\ fh.bound => fh.found
       /\ fh.calls = (IF fh.found /\ fh.made.finalizer # Nil THEN 1 ELSE 0)
       /\ fh.calls = 1 => fh.args = <<fh.made.vm, fh.made.value>>

\* The same of the finalize callbacks whose delete met no thread inside a
\* locked section of the table.
C18_FinalizedOnceUnraced ==
  (fh.op = "finalize" /\ ~torn /\ ~crashed)
    => /\ fh.gone
       /\ fh.bound => fh.found
       /\ fh.calls = (IF fh.found /\ fh.made.finalizer # Nil THEN 1 ELSE 0)
       /\ fh.calls = 1 => fh.args = <<fh.made.vm, fh.made.value>>

\* A finalize callback called the host finalizer and then died in its delete
\* while the thread of the other VM was reading the table.
C18_DeleteRacedWithGet ==
  /\ fh.op = "finalize" /\ crashed /\ fh.calls = 1
  /\ \E t \in Threads : t # fh.t /\ thread[t].pc = "glookup"

\* C19: from the return of a foreign constructor until the finalize callback
\* for the object's address, ForeignHandle.Get on a handle to the instance
\* returns the payload the class's Initializer returned.
C19_GetReturnsPayload ==
  /\ (fh.op = "Get" /\ fh.bound)
       => (fh.err = "none" /\ fh.value = fh.made.value)
  /\ \A t \in Threads :
       (thread[t].pc = "glookup" /\ guest[thread[t].a].bound) => ~crashed

\* The same while no data race has hit the table.
C19_GetReturnsPayloadUnraced ==
  (fh.op = "Get" /\ fh.bound /\ ~torn)
    => (fh.err = "none" /\ fh.value = fh.made.value)

\* Get on a constructed, live object came back with UnknownForeign.
C19_PayloadNotFound ==
  fh.op = "Get" /\ fh.bound /\ fh.err = "UnknownForeign" /\ fh.made.value # Nil

\* C20: ForeignHandle.Get on an unreleased handle whose foreign address has
\* no entry in the table returns UnknownForeign and never panics.
C20_UnknownForeignNoPanic ==
  /\ (fh.op = "Get" /\ fh.gone) => (fh.err = "UnknownForeign" /\ fh.value = Nil)
  /\ \A t \in Threads :
       (thread[t].pc = "glookup" /\ foreignMap[thread[t].a].k = "none")
         => ~crashed

\* What Get returns when it returns: UnknownForeign for an address without
\* an entry.
C20_UnknownForeignWhenReturned ==
  (fh.op = "Get" /\ fh.gone) => (fh.err = "UnknownForeign" /\ fh.value = Nil)

\* The process died while a Get on an address without an entry was reading
\* the table.
C20_DiedInGet ==
  /\ crashed
  /\ \E t \in Threads :
       thread[t].pc = "glookup" /\ foreignMap[thread[t].a].k = "none"


\* The destination the priority handler > VM stream > package stream picks
\* among those that are set (<<>>: none is set).
FirstSet(c, handler, stream, package, v) ==
  IF c.has /\ c[handler] # Nil THEN <<"Config." \o handler, v>>
  ELSE IF c.has /\ c[stream] # Nil THEN <<"Config." \o stream, v>>
  ELSE IF package # Nil THEN <<stream, 0>>
  ELSE <<>>

\* C21: the write callback delivers the text to exactly one destination,
\* the VM's Config.WriteFn if set, else the VM's Config.DefaultOutput if
\* set, else the package's DefaultOutput if set; if none is set the text is
\* dropped.
C21_WriteToFirstSet ==
  cb.fn = "write"
    => LET to == FirstSet(cb.cfg.vm[cb.vm], "WriteFn", "DefaultOutput",
                          cb.cfg.DefaultOutput, cb.vm)
       IN IF to = <<>> THEN cb.sent = <<>>
          ELSE /\ Len(cb.sent) = 1
               /\ cb.sent[1].to = to
               /\ cb.sent[1].text = cb.text

\* Text went to the VM's own DefaultOutput although the package's
\* DefaultOutput is set as well; and text was dropped.
C21_WroteToConfigStream ==
  /\ cb.fn = "write"
  /\ cb.cfg.DefaultOutput # Nil
  /\ cb.text # <<>>
  /\ cb.sent = Sent(<<"Config.DefaultOutput", cb.vm>>, cb.text, "none")

\* C22: the error callback delivers each compile error, runtime error or
\* stack-trace frame to exactly one destination, the VM's Config.ErrorFn if
\* set, else the VM's Config.DefaultError if set, else the package's
\* DefaultError if set; if none is set the error is dropped.
C22_ErrorToFirstSet ==
  cb.fn = "error"
    => LET to == FirstSet(cb.cfg.vm[cb.vm], "ErrorFn", "DefaultError",
                          cb.cfg.DefaultError, cb.vm)
       IN IF to = <<>> THEN cb.sent = <<>>
          ELSE /\ Len(cb.sent) = 1
               /\ cb.sent[1].to = to
               /\ cb.sent[1].err = cb.err

\* An error went to the package's DefaultError although the VM's Config has
\* a DefaultError of its own.
C22_ConfigStreamPassedOver ==
  /\ cb.fn = "error"
  /\ cb.cfg.vm[cb.vm].has /\ cb.cfg.vm[cb.vm].DefaultError # Nil
  /\ cb.cfg.vm[cb.vm].ErrorFn = Nil
  /\ cb.sent = Sent(<<"DefaultError", 0>>, <<>>, cb.err)

\* C23: the module-load callback uses the VM's Config.LoadModuleFn if set
\* and otherwise the package's DefaultModuleLoader, and it returns 'not
\* found' (a null source) whenever no loader supplies source: when the
\* loader chosen reports not found and when no loader is configured.
C23_LoaderOrNotFound ==
  cb.fn = "loadModule"
    => LET c == cb.cfg.vm[cb.vm]
           loader == IF c.has /\ c.LoadModuleFn # Nil
                     THEN <<"Config.LoadModuleFn", cb.vm>>
                     ELSE IF cb.cfg.DefaultModuleLoader # Nil
                     THEN <<"DefaultModuleLoader", 0>> ELSE <<>>
       IN /\ cb.sent = (IF loader = <<>> THEN <<>> ELSE Sent(loader, <<>>, "none"))
          /\ cb.ret.null <=> (loader = <<>> \/ ~cb.answer.ok)
          /\ ~cb.ret.null => cb.ret.mem = CString(cb.answer.source)

\* No loader is configured and the callback returned a source all the same.
C23_SourceWithoutLoader ==
  cb.fn = "loadModule" /\ cb.sent = <<>> /\ ~cb.ret.null


Usable(v) ==
  /\ ~crashed
  /\ vmptr[v] /\ v \in vmMap /\ ~undef[v]
  /\ stack[v] = <<>>
  /\ fiber[v] = GNull

\* C25: constructing a foreign class that is neither in the VM's table nor
\* of the exempt module aborts the running fiber with the bridge's
\* no-constructor message and adds nothing to the Foreign Object Table;
\* when no guest code catches the error, the enclosing Interpret returns a
\* runtime error, the process lives and the VM can be interpreted on again.
C25_InvalidConstructorAborts ==
  [][/\ (fm'.op = "construct" /\ fm' # fm)
          => /\ fiber'[fm'.vm] = GStr(NoConstructorMessage)
             /\ foreignMap' = foreignMap
             /\ guest' = guest
             /\ ~crashed'
     /\ (fm.op = "construct" /\ stack'[fm.vm] # stack[fm.vm])
          => /\ last'.op = "InterpretString.return"
             /\ last'.vm = fm.vm
             /\ last'.err = Err("ResultRuntimeError", HNil)
             /\ Usable(fm.vm)']_vars

\* The VM is interpreted on again after an Interpret that constructed such a
\* class returned.
C25_InterpretedAfterInvalid ==
  /\ fm.op = "construct.uncaught"
  /\ last.op = "InterpretString" /\ last.vm = fm.vm /\ last.entered
  /\ last.err = NoErr
  /\ foreignMap = [a \in Addrs |-> NoInstance]

\* C26: when the host function of a foreign method returns an error, the
\* forwarding function aborts the running fiber with exactly the error's
\* message as the fiber's error, which guest code sees after a failed
\* try(); the call never goes on as a success.
C26_ErrorAbortsFiber ==
  /\ (fm.op = "call" /\ fm.err.is /\ fm.fn # Nil)
       => /\ fiber[fm.vm] = GStr(fm.err.msg)
          /\ fiber[fm.vm] # GNull
  /\ (fm.op = "call.try" /\ fm.err.is) => fm.thrown = GStr(fm.err.msg)
  /\ (fm.op = "call" /\ ~fm.err.is) => fiber[fm.vm] = GNull

\* Guest code caught the error of a host function whose message is a single
\* NUL byte, and got that message.
C26_CaughtMessage ==
  /\ fm.op = "call.try"
  /\ fm.err = ErrorOf(<<0>>)
  /\ fm.thrown = GStr(<<0>>)

\* C27: two VMs whose tables hold a class of the same module and class name
\* with different methods never interfere: whatever one VM's thread does,
\* the process, the Foreign Object Table entries and the method slots of
\* the other VM are as they were.
C27_NoInterference ==
  [][\A u \in Threads :
       (thread'[u] # thread[u])
         => /\ crashed' = crashed
            /\ torn' = torn
            /\ \A a \in Addrs :
                 (guest[a].st # "free" /\ guest[a].vm # u)
                   => foreignMap'[a] = foreignMap[a]
            /\ \A v \in VMs \ {u} : bindMap'[v] = bindMap[v]]_vars

\* Every function in a VM's method slots is one its own table holds, and
\* a bind on one VM leaves the slots of the other alone.
C27_BindsOwnTable ==
  [][/\ \A v \in VMs : \A i \in 1..Len(bindMap'[v]) :
          \E class \in Range(ClassNames), key \in Range(Sigs) :
            bindMap'[v][i] = BoundMethod(heap, v, "main", class, key)
     /\ \A v \in VMs : fm'.vm # v => bindMap'[v] = bindMap[v]]_vars

\* Both VMs have bound "f()" of class "A" of module "main", each to the
\* function of its own table.
C27_SameNameTwoFunctions ==
  /\ Len(bindMap[1]) > 0 /\ Len(bindMap[2]) > 0
  /\ bindMap[1][1] = 1 /\ bindMap[2][1] = 2


\* The operations of MapHandle that take a key, and those of MapHandle and
\* ListHandle that take a value.
KeyedOps == {"MapHandle.Get", "MapHandle.Set", "MapHandle.Delete", "MapHandle.Has"}
ValuedOps == {"MapHandle.Set", "ListHandle.Insert", "ListHandle.InsertAt",
              "ListHandle.Set"}

\* The error marshaling x for VM v fails with ("": it does not fail): a
\* handle of another VM, a value of a type setSlotValue has no case for.
MarshalFailure(x, v) ==
  IF x.t \in HandleVariants
  THEN (IF hobj[x.s[1]].vm # v THEN "NonMatchingVM" ELSE "")
  ELSE IF x.t \in {"nil", "bool", "int", "uint", "float", "string", "bytes"}
  THEN "" ELSE "InvalidValue"

\* C28: Set, Get, Delete and Has of a MapHandle, called with a key that is
\* not a boolean, number, string or nil (a handle, any other host value),
\* return InvalidKey and change nothing in the guest map.
C28_InvalidKeyRefused ==
  (last.op \in KeyedOps /\ ~last.released
     /\ last.key.t \notin {"nil", "bool", "int", "uint", "float", "string", "bytes"})
    => (last.err.k = "InvalidKey" /\ last.mut = <<>>)

\* The same of the keys that are unreleased handles of the map's own VM.
C28_HandleKeyRefused ==
  (last.op \in KeyedOps /\ ~last.released
     /\ last.key.t \in HandleVariants
     /\ hobj[last.key.s[1]].vm = last.vm /\ ~Released(last.key.s[1]))
    => (last.err.k = "InvalidKey" /\ last.mut = <<>>)

\* MapHandle.Set with a key of an unsupported type returned no error and
\* stored the value under the key null.
C28_UnsupportedKeyStored ==
  /\ last.op = "MapHandle.Set" /\ last.key = HOther(1)
  /\ last.err = NoErr
  /\ Len(last.mut) = 1 /\ last.mut[1].fn = "wrenSetMapValue"
  /\ last.mut[1].key = GNull

\* C29: when marshaling the key or the value of MapHandle.Set, Get, Delete,
\* Has or the value of ListHandle.Insert, InsertAt, Set fails (unsupported
\* value, handle of another VM), the operation returns that error and the
\* guest map or list is not changed.
C29_MarshalErrorReturned ==
  (last.op \in KeyedOps \cup ValuedOps /\ ~last.released)
    => LET failure ==
             IF last.op \in KeyedOps /\ MarshalFailure(last.key, last.vm) # ""
             THEN MarshalFailure(last.key, last.vm)
             ELSE IF last.op \in ValuedOps
             THEN MarshalFailure(last.value, last.vm) ELSE ""
       IN failure # "" => (last.err.k = failure /\ last.mut = <<>>)

\* ListHandle.Insert of a value of an unsupported type returned no error and
\* inserted null; and of a handle of the other VM, what slot 1 held before.
C29_UnsupportedValueInserted ==
  /\ last.op = "ListHandle.Insert" /\ last.value = HOther(1)
  /\ last.err = NoErr
  /\ Len(last.mut) = 1 /\ last.mut[1].fn = "wrenInsertInList"
  /\ last.mut[1].key = GNull

C29_OtherVMValueInserted ==
  /\ last.op = "ListHandle.Insert"
  /\ MarshalFailure(last.value, last.vm) = "NonMatchingVM"
  /\ last.err = NoErr
  /\ Len(last.mut) = 1


\* C30: VM.Free releases every handle of the VM that is still unreleased,
\* each exactly once and before the native VM is freed (no guest ABI call is
\* made on the freed VM or with a NULL handle), and takes the VM out of the
\* registry; after it every handle that belonged to the VM is released.
C30_FreeReleasesAll ==
  [][\A v \in VMs :
       (vmptr[v] /\ ~vmptr'[v])
         => /\ last'.op = "VM.Free" /\ last'.vm = v
            /\ \A h \in HandleIds :
                 hobj[h].vm = v
                   => /\ hobj'[h].handle = 0
                      /\ rel'[h] = 1
                      /\ rel'[h] = rel[h] + (IF hobj[h].handle # 0 THEN 1 ELSE 0)
            /\ \A p \in Ptrs : native'[p].vm # v
            /\ v \notin vmMap'
            /\ last'.abi = 1 + Cardinality({h \in HandleIds :
                                              hobj[h].vm = v /\ hobj[h].handle # 0})
            /\ ~last'.null /\ ~last'.panic
            /\ stack[v] = <<>> => undef'[v] = undef[v]]_vars

\* VM.Free released the one handle of the VM that was still unreleased; the
\* VM had another, released before.
C30_FreedWithOutstanding ==
  /\ last.op = "VM.Free" /\ ~vmptr[last.vm]
  /\ last.abi = 2
  /\ Cardinality({h \in HandleIds : hobj[h].vm = last.vm /\ rel[h] = 1}) >= 2


\* C31: every insertion into and removal from the Foreign Object Table is
\* made by the thread that holds the table's write lock, every lookup by a
\* thread that holds at least the read lock, and no access overlaps a
\* mutation: the map is never left undefined and the runtime never stops the
\* process for a concurrent map access.
C31_TableLocked ==
  [][/\ \A t \in Threads :
          thread[t].pc \in {"flookup", "glookup"} => t \in foreignMapMux.r
     /\ \A t \in Threads :
          (thread[t].pc \in {"insert", "delete"} /\ thread'[t] # thread[t])
            => foreignMapMux.w = t
     /\ foreignMap' # foreignMap
          => \E t \in Threads : foreignMapMux.w = t /\ thread'[t] # thread[t]
     /\ torn' = torn
     /\ crashed' = crashed]_vars

\* The finalize callback removed the entry of an object from the table
\* although no thread held the write lock.
C31_DeletedUnlocked ==
  /\ fh.op = "finalize" /\ fh.found /\ fh.gone
  /\ foreignMap[fh.a].k = "none"
  /\ ~torn /\ ~crashed


C33_UnknownVMIgnored ==
  [][\A t \in Threads :
       (At(t, "lookup") /\ Innermost(t).v \notin vmMap
          /\ goroutine'[t] # goroutine[t])
         => /\ rh'.op = "trampoline" /\ rh'.t = t /\ ~rh'.found
            /\ rh'.sent = <<>> /\ ~rh'.host
            /\ rh'.source = NullPtr
            /\ rh'.method = Nil
            /\ rh'.class.allocate \in {"nil", "invalidConstructor"}
            /\ rh'.class.finalize = "nil"
            /\ bindMap' = bindMap
            /\ goroutine'[t] = SubSeq(goroutine[t], 1, Len(goroutine[t]) - 1)
            /\ crashed' = crashed]_vars

\* The guest of a freed VM asked for a module: a loader is configured, for
\* the VM or the package, and was not called.
C33_LoaderPassedOver ==
  /\ rh.op = "trampoline" /\ rh.fn = "moduleLoaderFn"
  /\ rh.v \notin vmMap /\ ~rh.found
  /\ (config.vm[rh.v].LoadModuleFn # Nil \/ config.DefaultModuleLoader # Nil)
  /\ rh.sent = <<>>


\* C39: no goroutine holds vmMapMux while host-supplied code runs on it (a
\* handler, stream or loader a trampoline called, a Finalizer the guest's
\* collector called, also inside VM.Free); every trampoline has released
\* the read lock exactly once when it returns; and no goroutine waits for a
\* lock that a frame of its own holds, so host code that creates or frees a
\* VM or makes the guest call back does not deadlock.
C39_NoLockInHostCode ==
  /\ \A t \in Threads :
       (goroutine[t] # <<>> /\ Innermost(t).pc = "host")
         => (vmMapMux.w # t /\ t \notin vmMapMux.r)
  /\ (rh.op \in {"trampoline", "return"} /\ rh.fn \in Trampolines) => rh.n = 1
  /\ \A t \in Threads : ~SelfDeadlock(t)

\* A Finalizer called inside VM.Free called NewVM or VM.Free, which waits
\* for the write lock its own goroutine holds.
C39_FinalizerDeadlocks ==
  \E t \in Threads :
    /\ SelfDeadlock(t)
    /\ Len(goroutine[t]) = 3
    /\ goroutine[t][1].pc = "Free.guest"
    /\ goroutine[t][2].pc = "host" /\ goroutine[t][2].fn = "Finalizer"
    /\ vmMapMux.w = t

\* Host code called by a trampoline runs with vmMapMux released by its
\* goroutine, and every trampoline unlocks exactly once.
C39_TrampolinesUnlock ==
  /\ \A t \in Threads :
       (goroutine[t] # <<>> /\ Innermost(t).pc = "host"
          /\ Innermost(t).fn \in Trampolines)
         => (t \notin vmMapMux.r
               /\ (vmMapMux.w = t => \E i \in 1..Len(goroutine[t]) :
                                       goroutine[t][i].pc = "Free.guest"))
  /\ (rh.op \in {"trampoline", "return"} /\ rh.fn \in Trampolines) => rh.n = 1


\* C34: every block of C memory a function of the bridge allocates
\* (C.CString, C.CBytes) has been released (C.free) when the function
\* returns, on every path; only an InterpretString that is inside
\* wrenInterpret still holds its two strings.
C34_CMemoryReleased ==
  (last.op # "InterpretString" \/ ~last.entered) => last.calloc = last.cfree

\* HasVariable returned false for a freed VM or an unknown module and left
\* both its C strings allocated.
C34_HasVariableLeaks ==
  /\ last.op = "HasVariable" /\ ~last.ret
  /\ last.calloc = 2 /\ last.cfree = 0

\* Call passed a byte slice: the copy setSlotValue made of it is not freed.
C34_ByteSliceLeaks ==
  /\ last.op = "Call" /\ last.err = NoErr
  /\ last.calloc = 1 /\ last.cfree = 0


\* An operation was invoked on a VM after VM.Free had freed it.
OnFreedVM ==
  /\ last.vm # 0
  /\ ~vmptr[last.vm]
  /\ ~(last.op = "VM.Free" /\ last.abi > 0)

\* C36: on a VM that VM.Free has freed, InterpretString, InterpretFile,
\* GetVariable, NewMap and NewList return NilVMError, HasModule and
\* HasVariable return false, and no operation of the VM, GC included, makes
\* a call of the guest ABI.
C36_FreedVMUntouched ==
  OnFreedVM
    => /\ last.op \in {"InterpretString", "InterpretFile", "GetVariable",
                       "NewMap", "NewList"} => last.err.k = "NilVMError"
       /\ last.op \in {"HasModule", "HasVariable"} => ~last.ret
       /\ last.abi = 0 /\ ~last.entered

\* GC was called on a freed VM and called the guest's collector with the
\* VM's nil pointer.
C36_GCOnFreedVM ==
  /\ OnFreedVM
  /\ last.op = "GC" /\ last.abi = 1
  /\ undef[last.vm]

\* The same for every operation but GC.
C36_FreedVMRefused ==
  (OnFreedVM /\ last.op # "GC")
    => /\ last.op \in {"InterpretString", "InterpretFile", "GetVariable",
                       "NewMap", "NewList"} => last.err.k = "NilVMError"
       /\ last.op \in {"HasModule", "HasVariable"} => ~last.ret
       /\ last.abi = 0 /\ ~last.entered


\* The first parameter of ps that setSlotValue refuses for VM v (0: none).
FirstFailure(ps, v) ==
  LET bad == {i \in 1..Len(ps) : MarshalFailure(ps[i], v) # ""} IN
  IF bad = {} THEN 0 ELSE CHOOSE i \in bad : \A j \in bad : i <= j

C35_GetWithinBounds ==
  \A i \in ListIndexes, n \in ListCounts :
    (/\ last.op = "ListHandle.Get" /\ ~last.released
     /\ last.key = IntVal(i) /\ last.value = IntVal(n))
    => last.err = (IF i < 0 \/ i >= n THEN Err("OutOfBounds", HNil) ELSE NoErr)

\* Get(1) on a list of two elements returned OutOfBounds.
C35_SecondElementRefused ==
  /\ last.op = "ListHandle.Get" /\ ~last.released
  /\ last.key = IntVal(1) /\ last.value = IntVal(2)
  /\ last.err = Err("OutOfBounds", HNil)

\* Get(1) on a list of one element went on to wrenGetListElement.
C35_PastTheEndRead ==
  /\ last.op = "ListHandle.Get" /\ ~last.released
  /\ last.key = IntVal(1) /\ last.value = IntVal(1)
  /\ last.err = NoErr

\* Get(0) is answered from the list itself.
C35_FirstElementBounded ==
  (/\ last.op = "ListHandle.Get" /\ ~last.released /\ last.key = IntVal(0))
  => (last.err = Err("OutOfBounds", HNil)) = (last.value = IntVal(0))

\* The receiver's class c holds the source class s's Initializer and
\* Finalizer wherever s has one.
ClassOverlaid(hp, c, s) ==
  /\ hp[s].init # Nil => hp[c].init = hp[s].init
  /\ hp[s].fin # Nil => hp[c].fin = hp[s].fin

\* The same for every class name both ClassMaps have a class under, and for
\* every module name both ModuleMaps have a module under.
ClassesOverlaid(hp, classes, source) ==
  \A name \in Range(ClassNames) :
    LET c == Entry(hp, classes, name)
        s == Entry(hp, source, name)
    IN (c \notin {Absent, Nil} /\ s \notin {Absent, Nil}) => ClassOverlaid(hp, c, s)

ModulesOverlaid(hp, modules, source) ==
  \A name \in Range(ModNames) :
    LET mine == Entry(hp, modules, name)
        module == Entry(hp, source, name)
    IN (mine \notin {Absent, Nil} /\ module \notin {Absent, Nil})
         => ClassesOverlaid(hp, hp[mine].ref, hp[module].ref)

\* C38: after a merge, a receiver class that has a source class of the same
\* module and class name holds every non-nil value of that source class: its
\* Initializer and its Finalizer as well as its methods.
C38_ClassValuesOverlaid ==
  (bt.op \in {"Merge", "VM.Merge"} /\ heap[bt.recv].k \in {"ClassMap", "ModuleMap"}
     /\ ~bt.panic)
    => /\ heap[bt.recv].k = "ClassMap" =>
            /\ ClassesOverlaid(heap, bt.recv, bt.src)
            /\ ClassesCover(heap, bt.recv, bt.src)
       /\ heap[bt.recv].k = "ModuleMap" =>
            /\ ModulesOverlaid(heap, bt.recv, bt.src)
            /\ ModulesCover(heap, bt.recv, bt.src)

\* A ClassMap was merged onto another, and a class of the receiver has no
\* Finalizer where the source class of its name has one.
C38_FinalizerNotMerged ==
  /\ bt.op = "Merge" /\ heap[bt.recv].k = "ClassMap" /\ ~bt.panic
  /\ \E name \in Range(ClassNames) :
       LET c == Entry(heap, bt.recv, name)
           s == Entry(heap, bt.src, name)
       IN /\ c \notin {Absent, Nil} /\ s \notin {Absent, Nil}
          /\ heap[c].fin = Nil /\ heap[s].fin # Nil

\* vm.Merge has run on a module the VM has, and a class of the VM keeps its
\* own Initializer although the source class of its name has another.
C38_InitializerKept ==
  /\ bt.op = "VM.Merge" /\ ~bt.panic
  /\ \E m \in Range(ModNames), name \in Range(ClassNames) :
       LET mine == Entry(heap, bt.recv, m)
           module == Entry(heap, bt.src, m)
       IN /\ mine \notin {Absent, Nil} /\ module \notin {Absent, Nil}
          /\ LET c == Entry(heap, heap[mine].ref, name)
                 s == Entry(heap, heap[module].ref, name)
             IN /\ c \notin {Absent, Nil} /\ s \notin {Absent, Nil}
                /\ heap[s].init # Nil /\ heap[c].init # heap[s].init

\* C40: a construction whose Initializer returns an error allocates no
\* foreign object, leaves the Foreign Object Table as it was and ends with
\* that error; the table gets an entry only from a construction that came
\* past its Initializer (or had none), for the object that one allocated.
C40_FailedInitializerAllocatesNothing ==
  [][/\ \A t \in Threads, class \in Range(ClassNames), a \in Addrs :
          ConstructBegin(t, class, TRUE, a)
            => /\ fh'.op = "construct" /\ fh'.t = t /\ fh'.err = "error"
               /\ guest' = guest
               /\ foreignMap' = foreignMap
               /\ thread'[t].pc = "idle"
     /\ \A a \in Addrs :
          (foreignMap'[a] # foreignMap[a] /\ foreignMap'[a] # NoInstance)
            => \E t \in Threads :
                 /\ thread[t].pc = "insert" /\ thread[t].a = a
                 /\ foreignMap'[a] = thread[t].inst
                 /\ guest[a].st = "live" /\ guest[a].made = thread[t].inst
                 /\ fh'.op = "construct" /\ fh'.err = "none"]_vars

\* An Initializer has returned an error while another object of the VM is in
\* the table.
C40_InitializerFailed ==
  /\ fh.op = "construct" /\ fh.err = "error"
  /\ thread[fh.t].pc = "idle"
  /\ \E a \in Addrs : foreignMap[a] # NoInstance /\ foreignMap[a].vm = fh.t

====
